---- MODULE Spec2Model ----
(***************************************************************************)
(* A model of the VS Code timeline extractor: the timeline index           *)
(* (VSCodeTimelineExtractor.scanTimeline and its readers), version         *)
(* resolution (TimelineFile) and directory reconstruction.                 *)
(*                                                                         *)
(* Strings that the code inspects character by character (paths, resource  *)
(* URIs) are sequences of one-character strings; the scheme "file://" and  *)
(* a percent escape such as "%78" are single tokens of such a sequence.    *)
(* Paths are POSIX paths (path.sep = "/").                                 *)
(***************************************************************************)
EXTENDS Integers, Sequences, FiniteSets, TLC

(***************************************************************************)
(* Bounds of the model.                                                    *)
(***************************************************************************)
\* Version timestamps range over 0..MaxTime (0 is also parseEntriesFile's default).
MaxTime == 2
\* The longest entries list drawn for the version-resolution specification.
MaxEntries == 3

Ids == {"a", "b"}

(***************************************************************************)
(* Strings and paths.                                                      *)
(***************************************************************************)
Sep == "/"

StartsWith(s, pre) ==
    /\ Len(pre) <= Len(s)
    /\ SubSeq(s, 1, Len(pre)) = pre

EndsWith(s, suf) ==
    /\ Len(suf) <= Len(s)
    /\ SubSeq(s, Len(s) - Len(suf) + 1, Len(s)) = suf

\* The value of the one element of S. An operand bound through a one-element
\* set, Only({ F(x) : x \in {e} }), is evaluated once however often F uses it.
Only(S) == CHOOSE r \in S : TRUE

\* s.split("/") from character i on: segment is the segment being read and
\* done the segments before it.
RECURSIVE SplitFrom(_, _, _, _)
SplitFrom(s, i, segment, done) ==
    IF i > Len(s) THEN Append(done, segment)
    ELSE IF s[i] = Sep
         THEN SplitFrom(s, i + 1, <<>>, Append(done, segment))
         ELSE SplitFrom(s, i + 1, Append(segment, s[i]), done)

\* s.split("/"): the segments of s, empty ones included.
Split(s) == SplitFrom(s, 1, <<>>, <<>>)

DotDot == <<".", ".">>

\* The segments of a normalized absolute path: "" and "." dropped, ".." popping
\* the segment before it (and dropped at the root).
RECURSIVE NormSegs(_, _)
NormSegs(segs, acc) ==
    IF segs = <<>> THEN acc
    ELSE LET h == Head(segs)
         IN  IF h = <<>> \/ h = <<".">> THEN NormSegs(Tail(segs), acc)
             ELSE IF h = DotDot
                  THEN NormSegs(Tail(segs),
                                IF acc = <<>> THEN acc
                                ELSE SubSeq(acc, 1, Len(acc) - 1))
                  ELSE NormSegs(Tail(segs), Append(acc, h))

RECURSIVE JoinAbs(_)
JoinAbs(segs) ==
    IF segs = <<>> THEN <<>>
    ELSE <<Sep>> \o Head(segs) \o JoinAbs(Tail(segs))

RECURSIVE JoinRel(_)
JoinRel(segs) ==
    IF segs = <<>> THEN <<>>
    ELSE IF Len(segs) = 1 THEN Head(segs)
    ELSE Head(segs) \o <<Sep>> \o JoinRel(Tail(segs))

\* path.resolve of an absolute path: normalized, no trailing separator
\* except for the root itself.
PathResolve(p) ==
    LET segs == NormSegs(Split(p), <<>>)
    IN  IF segs = <<>> THEN <<Sep>> ELSE JoinAbs(segs)

RECURSIVE CommonLen(_, _)
CommonLen(a, b) ==
    IF a = <<>> \/ b = <<>> THEN 0
    ELSE IF Head(a) = Head(b) THEN 1 + CommonLen(Tail(a), Tail(b))
    ELSE 0

\* path.relative(from, to): both resolved, the common leading segments
\* dropped, one ".." per remaining segment of from, then the rest of to.
PathRelative(from, to) ==
    LET f == NormSegs(Split(from), <<>>)
        t == NormSegs(Split(to), <<>>)
        k == CommonLen(f, t)
    IN  JoinRel([i \in 1..(Len(f) - k) |-> DotDot] \o SubSeq(t, k + 1, Len(t)))

(***************************************************************************)
(* TimelineFile: version resolution.                                       *)
(***************************************************************************)
\* An absent value (undefined) is the empty sequence, a present one <<v>>.
Undefined == <<>>

Some(v) == <<v>>

\* entries.reduce((latest, entry) => entry.timestamp > latest.timestamp ? entry : latest)
RECURSIVE ReduceLater(_, _)
ReduceLater(latest, rest) ==
    IF rest = <<>> THEN latest
    ELSE ReduceLater(IF Head(rest).timestamp > latest.timestamp
                     THEN Head(rest) ELSE latest,
                     Tail(rest))

\* entries[0] taken for the latest entry.
MutFirstEntry(entries) ==
    IF Len(entries) = 0 THEN Undefined ELSE Some(Head(entries))

latestEntry(entries) ==
    IF Len(entries) = 0 THEN Undefined
    ELSE Some(ReduceLater(Head(entries), Tail(entries)))

NotNewer(e, targetTimestamp) == e.timestamp <= targetTimestamp

MutNotOlder(entries, targetTimestamp) ==
    LET validEntries == SelectSeq(entries, LAMBDA e : e.timestamp >= targetTimestamp)
    IN  IF Len(validEntries) = 0 THEN Undefined
        ELSE Some(ReduceLater(Head(validEntries), Tail(validEntries)))

MutNotNewerStrict(entries, targetTimestamp) ==
    LET validEntries == SelectSeq(entries, LAMBDA e : e.timestamp < targetTimestamp)
    IN  IF Len(validEntries) = 0 THEN Undefined
        ELSE Some(ReduceLater(Head(validEntries), Tail(validEntries)))

getEntryAtTimestamp(entries, targetTimestamp) ==
    LET validEntries == SelectSeq(entries, LAMBDA e : NotNewer(e, targetTimestamp))
    IN  IF Len(validEntries) = 0 THEN Undefined
        ELSE Some(ReduceLater(Head(validEntries), Tail(validEntries)))

(***************************************************************************)
(* The history store and parseEntriesFile.                                 *)
(*                                                                         *)
(* The store is the listing of timelinePath in readdirSync order: item i   *)
(* is a plain file, a sub-directory without entries.json, a sub-directory  *)
(* whose entries.json is not valid JSON, or a sub-directory with a parsed  *)
(* manifest (data.resource, data.entries) and the content blobs it holds.  *)
(* The sub-directory's path (timelineDir) is its position i.               *)
(***************************************************************************)
NotADirectory == [kind |-> "file"]

NoManifest == [kind |-> "dir"]

Corrupt == [kind |-> "corrupt"]

\* resource: Undefined or Some(uri); entries: raw descriptors whose id and
\* timestamp are Undefined or Some(value); blobs: the ids with a content file.
Manifest(resource, entries, blobs) ==
    [kind |-> "manifest", resource |-> resource, entries |-> entries, blobs |-> blobs]

RawEntry(id, timestamp) == [id |-> Some(id), timestamp |-> Some(timestamp)]

FileScheme == "file://"

\* decodeURIComponent on one token of a pathname.
PercentDecode(tok) ==
    CASE tok = "%78" -> "x"
      [] tok = "%79" -> "y"
      [] OTHER -> tok

\* new URL(uri).pathname, percent-decoded; a string that is no URL is
\* returned as it is.
decodeFileUri(uri) ==
    IF uri # <<>> /\ Head(uri) = FileScheme
    THEN [i \in 1..(Len(uri) - 1) |-> PercentDecode(uri[i + 1])]
    ELSE uri

\* entries.map(entry => ({ id: entry.id || '', timestamp: entry.timestamp || 0 }))
EntryDefaults(entry) ==
    [id |-> IF entry.id = Undefined THEN "" ELSE entry.id[1],
     timestamp |-> IF entry.timestamp = Undefined THEN 0 ELSE entry.timestamp[1]]

TimelineFile(originalPath, timelineDir, entries) ==
    [originalPath |-> originalPath, timelineDir |-> timelineDir, entries |-> entries]

relativePath(timelineFile) == decodeFileUri(timelineFile.originalPath)

\* What parseEntriesFile does with the entries.json of sub-directory i:
\* it throws (JSON.parse), returns undefined (no resource) or a TimelineFile.
parseEntriesFile(item, timelineDir) ==
    IF item.kind = "corrupt" THEN [threw |-> TRUE, file |-> Undefined]
    ELSE IF item.resource = Undefined THEN [threw |-> FALSE, file |-> Undefined]
    ELSE [threw |-> FALSE,
          file |-> Some(TimelineFile(item.resource[1], timelineDir,
                        [k \in 1..Len(item.entries) |-> EntryDefaults(item.entries[k])]))]

(***************************************************************************)
(* The index: a JavaScript Map, kept as the sequence of its [key, value]   *)
(* pairs in insertion order.                                               *)
(***************************************************************************)
EmptyMap == <<>>

MapKeys(m) == { m[i].key : i \in 1..Len(m) }

MapHas(m, k) == \E i \in 1..Len(m) : m[i].key = k

MapGet(m, k) == m[CHOOSE i \in 1..Len(m) : m[i].key = k].value

\* Map.set: a present key keeps its place and takes the new value.
MapSet(m, k, v) ==
    IF MapHas(m, k)
    THEN [i \in 1..Len(m) |-> IF m[i].key = k THEN [key |-> k, value |-> v] ELSE m[i]]
    ELSE Append(m, [key |-> k, value |-> v])

\* this.timelineFiles.clear() at the head of scanTimeline.
MutKeepOldIndex(files) == files

ClearIndex(files) == EmptyMap

\* The catch block of scanTimeline's loop: log the entries file, continue.
LogParseError(log, timelineDir) == Append(log, timelineDir)

\* The loop of scanTimeline over readdirSync's items, from item i on.
RECURSIVE MutScanStopsAtError(_, _, _, _)
MutScanStopsAtError(items, i, files, log) ==
    IF i > Len(items) THEN [files |-> files, log |-> log]
    ELSE IF items[i].kind \in {"file", "dir"}
         THEN MutScanStopsAtError(items, i + 1, files, log)
         ELSE Only({
                IF parsed.threw
                THEN [files |-> files, log |-> LogParseError(log, i)]
                ELSE IF parsed.file = Undefined
                     THEN MutScanStopsAtError(items, i + 1, files, log)
                     ELSE Only({ MutScanStopsAtError(items, i + 1, set, log) :
                                 set \in { MapSet(files, relativePath(parsed.file[1]),
                                                  parsed.file[1]) } })
                : parsed \in { parseEntriesFile(items[i], i) } })

RECURSIVE ScanLoop(_, _, _, _)
ScanLoop(items, i, files, log) ==
    IF i > Len(items) THEN [files |-> files, log |-> log]
    ELSE IF items[i].kind \in {"file", "dir"}
         THEN ScanLoop(items, i + 1, files, log)
         ELSE Only({
                IF parsed.threw
                THEN Only({ ScanLoop(items, i + 1, files, logged) :
                            logged \in { LogParseError(log, i) } })
                ELSE IF parsed.file = Undefined
                     THEN ScanLoop(items, i + 1, files, log)
                     ELSE Only({ ScanLoop(items, i + 1, set, log) :
                                 set \in { MapSet(files, relativePath(parsed.file[1]),
                                                  parsed.file[1]) } })
                : parsed \in { parseEntriesFile(items[i], i) } })

\* scanTimeline: the index is cleared, the store is listed (readdirSync throws
\* when timelinePath cannot be read) and every manifest is loaded. ok tells
\* whether the call returned; log holds the lines its catch block logged.
scanTimeline(items, readable, files) ==
    IF readable
    THEN Only({ [ok |-> TRUE, files |-> r.files, log |-> r.log] :
                r \in { ScanLoop(items, 1, ClearIndex(files), <<>>) } })
    ELSE [ok |-> FALSE, files |-> ClearIndex(files), log |-> <<>>]

(***************************************************************************)
(* filterByDirectory and reconstructDirectory.                             *)
(***************************************************************************)
METADATA_FILENAME == <<"timeline_metadata.json">>

METADATA_VERSION == 1

\* The loop of filterByDirectory over the index, in the Map's order.
filterByDirectory(files, directoryPath) ==
    LET normalizedDir == PathResolve(directoryPath)
        dirWithSlash == IF EndsWith(normalizedDir, <<Sep>>)
                        THEN normalizedDir ELSE normalizedDir \o <<Sep>>
    IN  SelectSeq(files, LAMBDA f : \/ StartsWith(f.key, dirWithSlash)
                                    \/ StartsWith(f.key, normalizedDir))

MutNoEscapeTest(filePath, sourcePath) == Some(PathRelative(sourcePath, filePath))

\* calculateRelativePath: path.relative does not throw on strings, so the
\* catch block's string matching is never reached.
calculateRelativePath(filePath, sourcePath) ==
    LET relative == PathRelative(sourcePath, filePath)
    IN  IF StartsWith(relative, DotDot) THEN Undefined ELSE Some(relative)

\* fs.existsSync(path.join(timelineDir, entry.id)): an empty id names the
\* sub-directory itself.
BlobExists(items, timelineDir, id) ==
    /\ items[timelineDir].kind # "file"
    /\ \/ id = ""
       \/ /\ items[timelineDir].kind = "manifest"
          /\ id \in items[timelineDir].blobs

\* The content of a blob stands for itself: the blob's place in the store.
BlobContent(timelineDir, id) == [timelineDir |-> timelineDir, id |-> id]

formatTimestamp(timestampMs) == <<"ISO", timestampMs>>

computeFileHash(timelineDir, id) == <<"sha256", BlobContent(timelineDir, id)>>

toMetadataDict(timelineFile, entry) ==
    [originalPath |-> relativePath(timelineFile),
     relativePath |-> relativePath(timelineFile),
     entryId |-> entry.id,
     timestamp |-> entry.timestamp,
     datetime |-> formatTimestamp(entry.timestamp),
     hash |-> computeFileHash(timelineFile.timelineDir, entry.id)]

\* What processFileForReconstruction returns; copied tells whether the blob
\* was written to destPath before it returned.
FileOutcome(status, relPath, metadata, error, copied) ==
    [status |-> status, relativePath |-> relPath, metadata |-> metadata,
     error |-> error, copied |-> copied]

Skipped == FileOutcome("skipped", Undefined, Undefined, Undefined, FALSE)

MutFaultSwallowed(filePath, e, copied) == Skipped

\* The catch block of processFileForReconstruction.
CaughtFault(filePath, e, copied) ==
    FileOutcome("error", Undefined, Undefined,
                Some([file |-> filePath, error |-> e]), copied)

\* With an instant before every version, the latest version is taken instead.
MutResolveFallsBack(timelineFile, atTimestamp) ==
    IF atTimestamp # Undefined
       /\ getEntryAtTimestamp(timelineFile.entries, atTimestamp[1]) # Undefined
    THEN getEntryAtTimestamp(timelineFile.entries, atTimestamp[1])
    ELSE latestEntry(timelineFile.entries)

\* The entry a reconstruction takes for a file.
ResolveEntry(timelineFile, atTimestamp) ==
    IF atTimestamp # Undefined
    THEN getEntryAtTimestamp(timelineFile.entries, atTimestamp[1])
    ELSE latestEntry(timelineFile.entries)

\* processFileForReconstruction. faults names the sub-directories whose blob
\* cannot be copied (copyFileSync throws) or hashed (readFileSync throws);
\* copying an empty id, a directory, throws as well.
processFileForReconstruction(filePath, timelineFile, sourcePath, atTimestamp, exportMetadata, items, faults) ==
    LET entry == ResolveEntry(timelineFile, atTimestamp)
        rel == calculateRelativePath(filePath, sourcePath)
        dir == timelineFile.timelineDir
    IN  IF entry = Undefined THEN Skipped
        ELSE IF rel = Undefined \/ rel[1] = <<>> THEN Skipped
        ELSE IF ~BlobExists(items, dir, entry[1].id)
             THEN FileOutcome("error", Undefined, Undefined,
                      Some([file |-> filePath, error |-> "Source file not found"]),
                      FALSE)
        ELSE IF dir \in faults.copy \/ entry[1].id = ""
             THEN CaughtFault(filePath, "copyFile threw", FALSE)
        ELSE IF exportMetadata /\ dir \in faults.hash
             THEN CaughtFault(filePath, "computeFileHash threw", TRUE)
        ELSE FileOutcome("processed", rel,
                 IF exportMetadata
                 THEN Some([toMetadataDict(timelineFile, entry[1])
                              EXCEPT !.relativePath = rel[1]])
                 ELSE Undefined,
                 Undefined, TRUE)

\* A write that first moves what is at path to a backup beside it.
MutWriteKeepsBackup(dest, path, content) ==
    IF path \in DOMAIN dest
    THEN (path :> content) @@ ((path \o <<".bak">>) :> dest[path]) @@ dest
    ELSE (path :> content) @@ dest

\* fs.copyFileSync / fs.writeFileSync: the file at path is created or replaced.
WriteFile(dest, path, content) == (path :> content) @@ dest

\* One turn of reconstructDirectory's loop: the file's result is filed under
\* processedFiles, skippedFiles or errors; dest takes the blob if it was copied.
FileResult(acc, filePath, timelineFile, sourcePath, atTimestamp, r) ==
    [processedFiles |-> IF r.status = "processed"
                        THEN Append(acc.processedFiles, r.relativePath[1])
                        ELSE acc.processedFiles,
     skippedFiles |-> IF r.status = "skipped"
                      THEN Append(acc.skippedFiles, filePath)
                      ELSE acc.skippedFiles,
     errors |-> IF r.status = "error"
                THEN Append(acc.errors, r.error[1])
                ELSE acc.errors,
     metadataEntries |-> IF r.status = "processed" /\ r.metadata # Undefined
                         THEN Append(acc.metadataEntries, r.metadata[1])
                         ELSE acc.metadataEntries,
     dest |-> IF r.copied
              THEN WriteFile(acc.dest, calculateRelativePath(filePath, sourcePath)[1],
                             BlobContent(timelineFile.timelineDir,
                                         ResolveEntry(timelineFile, atTimestamp)[1].id))
              ELSE acc.dest]

\* The loop of reconstructDirectory over matchingFiles, from pair k on.
RECURSIVE ReconstructLoop(_, _, _, _, _, _, _, _)
ReconstructLoop(matching, k, sourcePath, atTimestamp, exportMetadata, items, faults, acc) ==
    IF k > Len(matching) THEN acc
    ELSE Only({ ReconstructLoop(matching, k + 1, sourcePath, atTimestamp,
                                exportMetadata, items, faults, next) :
                next \in { FileResult(acc, matching[k].key, matching[k].value,
                                      sourcePath, atTimestamp, r) :
                           r \in { processFileForReconstruction(
                                       matching[k].key, matching[k].value, sourcePath,
                                       atTimestamp, exportMetadata, items, faults) } } })

\* The document exportMetadata writes (extractionTime, the wall clock, left out).
MetadataDocument(sourceDirectory, metadataEntries, atTimestamp) ==
    [version |-> METADATA_VERSION,
     sourceDirectory |-> sourceDirectory,
     totalFiles |-> Len(metadataEntries),
     files |-> metadataEntries,
     reconstructedAt |-> IF atTimestamp # Undefined
                         THEN Some(formatTimestamp(atTimestamp[1])) ELSE Undefined]

MutExportWhenAsked(exportMetadata, metadataEntries) == exportMetadata

\* if (exportMetadata && metadataEntries.length > 0)
ShouldExport(exportMetadata, metadataEntries) ==
    exportMetadata /\ Len(metadataEntries) > 0

\* The end of reconstructDirectory, once the loop has left done: the
\* metadata document is written and the result is put together.
ReconstructionResult(matchingFiles, done, sourceDirectory, exportMetadata, atTimestamp, faults) ==
    IF ShouldExport(exportMetadata, done.metadataEntries) /\ faults.op = "write"
    THEN [threw |-> TRUE, matching |-> matchingFiles, dest |-> done.dest,
          result |-> Undefined]
    ELSE [threw |-> FALSE, matching |-> matchingFiles,
          dest |-> IF ShouldExport(exportMetadata, done.metadataEntries)
                   THEN WriteFile(done.dest, METADATA_FILENAME,
                                  MetadataDocument(sourceDirectory, done.metadataEntries,
                                                   atTimestamp))
                   ELSE done.dest,
          result |-> Some([success |-> TRUE, error |-> Undefined,
                           filesProcessed |-> Len(done.processedFiles),
                           files |-> done.processedFiles,
                           errors |-> done.errors,
                           reconstructedAt |-> IF atTimestamp # Undefined
                                               THEN Some(formatTimestamp(atTimestamp[1]))
                                               ELSE Undefined,
                           skippedFiles |-> IF atTimestamp # Undefined
                                            THEN Some(Len(done.skippedFiles))
                                            ELSE Undefined])]

\* reconstructDirectory from the filter's result on.
ReconstructMatching(matchingFiles, items, sourceDirectory, exportMetadata, atTimestamp, faults, dest) ==
    IF Len(matchingFiles) = 0
    THEN [threw |-> FALSE, matching |-> matchingFiles, dest |-> dest,
          result |-> Some([success |-> FALSE,
                           error |-> Some("No files found for directory"),
                           filesProcessed |-> 0, files |-> <<>>, errors |-> <<>>,
                           reconstructedAt |-> Undefined, skippedFiles |-> Undefined])]
    ELSE IF faults.op = "mkdir"
    THEN [threw |-> TRUE, matching |-> matchingFiles, dest |-> dest,
          result |-> Undefined]
    ELSE Only({ ReconstructionResult(matchingFiles, done, sourceDirectory,
                                     exportMetadata, atTimestamp, faults) :
                done \in { ReconstructLoop(matchingFiles, 1, PathResolve(sourceDirectory),
                               atTimestamp, exportMetadata, items, faults,
                               [processedFiles |-> <<>>, skippedFiles |-> <<>>,
                                errors |-> <<>>, metadataEntries |-> <<>>,
                                dest |-> dest]) } })

\* reconstructDirectory on a scanned index. dest is the tree under
\* outputDirectory (relative path -> content); faults.op names the step that
\* throws for the whole call: "mkdir" (ensureDirectoryExists), "write"
\* (exportMetadata's writeFileSync) or "none". threw tells whether the call
\* rejected instead of returning result.
reconstructDirectory(files, items, sourceDirectory, exportMetadata, atTimestamp, faults, dest) ==
    Only({ ReconstructMatching(matchingFiles, items, sourceDirectory, exportMetadata,
                               atTimestamp, faults, dest) :
           matchingFiles \in { filterByDirectory(files, sourceDirectory) } })

(***************************************************************************)
(* The other queries on the index: getFile, getStatistics, searchFiles.    *)
(***************************************************************************)
\* ensureScanned always scanning.
MutScanAlways(isScanned) == TRUE

\* ensureScanned: if (!this.scanned)
ShouldScan(isScanned) == ~isScanned

\* The first pair of the Map, in its order, whose key passes test.
FirstKey(files, test(_)) ==
    IF \E i \in 1..Len(files) : test(files[i].key)
    THEN Some(files[CHOOSE i \in 1..Len(files) :
                        /\ test(files[i].key)
                        /\ \A j \in 1..(i - 1) : ~test(files[j].key)].value)
    ELSE Undefined

\* getFile on a scanned index: the exact path, else the first partial match.
getFile(files, filePath) ==
    LET normalizedPath == PathResolve(filePath)
    IN  IF MapHas(files, normalizedPath) THEN Some(MapGet(files, normalizedPath))
        ELSE FirstKey(files, LAMBDA storedPath :
                                 \/ EndsWith(storedPath, normalizedPath)
                                 \/ EndsWith(normalizedPath, storedPath))

\* entries.reduce((oldest, entry) => entry.timestamp < oldest.timestamp ? entry : oldest)
RECURSIVE ReduceEarlier(_, _)
ReduceEarlier(oldest, rest) ==
    IF rest = <<>> THEN oldest
    ELSE ReduceEarlier(IF Head(rest).timestamp < oldest.timestamp
                       THEN Head(rest) ELSE oldest,
                       Tail(rest))

oldestEntry(entries) ==
    IF Len(entries) = 0 THEN Undefined
    ELSE Some(ReduceEarlier(Head(entries), Tail(entries)))

\* The loop of getStatistics over the index, from pair k on.
RECURSIVE StatisticsLoop(_, _, _)
StatisticsLoop(files, k, acc) ==
    IF k > Len(files) THEN acc
    ELSE LET entries == files[k].value.entries
             oldest == oldestEntry(entries)
             newest == latestEntry(entries)
         IN  StatisticsLoop(files, k + 1,
                 [totalFiles |-> acc.totalFiles,
                  totalVersions |-> acc.totalVersions + Len(entries),
                  oldestEntry |->
                      IF /\ oldest # Undefined
                         /\ \/ acc.oldestEntry = Undefined
                            \/ oldest[1].timestamp < acc.oldestEntry[1].timestamp
                      THEN Some([path |-> files[k].key, timestamp |-> oldest[1].timestamp])
                      ELSE acc.oldestEntry,
                  newestEntry |->
                      IF /\ newest # Undefined
                         /\ \/ acc.newestEntry = Undefined
                            \/ newest[1].timestamp > acc.newestEntry[1].timestamp
                      THEN Some([path |-> files[k].key, timestamp |-> newest[1].timestamp])
                      ELSE acc.newestEntry])

getStatistics(files) ==
    StatisticsLoop(files, 1, [totalFiles |-> Len(files), totalVersions |-> 0,
                              oldestEntry |-> Undefined, newestEntry |-> Undefined])

\* String.prototype.toLowerCase on the letters that occur.
ToLowerCase(s) ==
    [i \in 1..Len(s) |-> CASE s[i] = "P" -> "p"
                           [] s[i] = "Q" -> "q"
                           [] s[i] = "X" -> "x"
                           [] OTHER -> s[i]]

\* String.prototype.includes
Includes(s, sub) ==
    \E i \in 0..(Len(s) - Len(sub)) : SubSeq(s, i + 1, i + Len(sub)) = sub

\* path.basename of a path without trailing separator.
Basename(p) == Split(p)[Len(Split(p))]

\* searchFiles on a scanned index.
searchFiles(files, pattern) ==
    LET lowerPattern == ToLowerCase(pattern)
    IN  SelectSeq(files, LAMBDA f :
            \/ Includes(ToLowerCase(f.key), lowerPattern)
            \/ Includes(ToLowerCase(Basename(relativePath(f.value))), lowerPattern))

(***************************************************************************)
(* parseTimestamp.                                                         *)
(*                                                                         *)
(* A Number holding a non-negative integer is the sequence of its decimal  *)
(* digits, most significant first and without leading zeros (0 is <<0>>);  *)
(* NaN is the empty sequence. The strings parsed are sequences of          *)
(* one-character strings.                                                  *)
(***************************************************************************)
DigitChars == <<"0", "1", "2", "3", "4", "5", "6", "7", "8", "9">>

IsDigit(c) == \E i \in 1..10 : DigitChars[i] = c

DigitValue(c) == (CHOOSE i \in 1..10 : DigitChars[i] = c) - 1

NaN == <<>>

\* a < b on Numbers.
NumLess(a, b) ==
    IF Len(a) # Len(b) THEN Len(a) < Len(b)
    ELSE \E i \in 1..Len(a) :
            /\ a[i] < b[i]
            /\ \A j \in 1..(i - 1) : a[j] = b[j]

RECURSIVE StripZeros(_)
StripZeros(ds) ==
    IF Len(ds) > 1 /\ Head(ds) = 0 THEN StripZeros(Tail(ds)) ELSE ds

\* n + 1.
RECURSIVE NumSucc(_)
NumSucc(n) ==
    IF n = <<>> THEN <<1>>
    ELSE IF n[Len(n)] < 9 THEN [n EXCEPT ![Len(n)] = @ + 1]
    ELSE Append(NumSucc(SubSeq(n, 1, Len(n) - 1)), 0)

\* 2^53: up to it every integer is a Number.
TwoTo53 == <<9, 0, 0, 7, 1, 9, 9, 2, 5, 4, 7, 4, 0, 9, 9, 2>>

\* The Number nearest to the integer n, ties to the even significand. Between
\* 2^53 and 2^54 the Numbers are the even integers; the strings parsed have
\* at most 16 digits, so n < 2^54.
RoundToNumber(n) ==
    IF ~NumLess(TwoTo53, n) THEN n
    ELSE IF n[Len(n)] % 2 = 0 THEN n
    ELSE IF (10 * n[Len(n) - 1] + n[Len(n)]) % 4 = 1
         THEN [n EXCEPT ![Len(n)] = @ - 1]
         ELSE NumSucc(n)

\* The leading digits of s.
RECURSIVE LeadingDigits(_)
LeadingDigits(s) ==
    IF s = <<>> \/ ~IsDigit(Head(s)) THEN <<>>
    ELSE <<Head(s)>> \o LeadingDigits(Tail(s))

\* parseInt(s, 10) on a string without sign or leading blanks.
parseInt(s) ==
    LET ds == LeadingDigits(s)
    IN  IF ds = <<>> THEN NaN
        ELSE RoundToNumber(StripZeros([i \in 1..Len(ds) |-> DigitValue(ds[i])]))

\* timestampStr.match(/^\d+$/)
MatchesAllDigits(s) == Len(s) > 0 /\ \A i \in 1..Len(s) : IsDigit(s[i])

\* 4102444800, the first second of the year 2100.
Year2100 == <<4, 1, 0, 2, 4, 4, 4, 8, 0, 0>>

\* numericValue * 1000, exact for numericValue < 4102444800.
MutTimesHundred(n) == IF n = <<0>> THEN n ELSE n \o <<0, 0>>

TimesThousand(n) == IF n = <<0>> THEN n ELSE n \o <<0, 0, 0>>

\* The Number of a non-negative integer small enough to be computed with.
RECURSIVE ToNum(_)
ToNum(k) == IF k < 10 THEN <<k>> ELSE Append(ToNum(k \div 10), k % 10)

\* The two-digit number at s[i], s[i + 1].
TwoDigits(s, i) == 10 * DigitValue(s[i]) + DigitValue(s[i + 1])

FourDigits(s, i) == 100 * TwoDigits(s, i) + TwoDigits(s, i + 2)

\* timestampStr.match(/^(\d{4})-(\d{2})-(\d{2})$/)
MatchesDateOnly(s) ==
    /\ Len(s) = 10
    /\ \A i \in {1, 2, 3, 4, 6, 7, 9, 10} : IsDigit(s[i])
    /\ s[5] = "-" /\ s[8] = "-"

\* YYYY-MM-DD, then T or a blank, then HH:MM:SS.
MatchesDateTime(s) ==
    /\ Len(s) = 19
    /\ MatchesDateOnly(SubSeq(s, 1, 10))
    /\ s[11] \in {"T", " "}
    /\ \A i \in {12, 13, 15, 16, 18, 19} : IsDigit(s[i])
    /\ s[14] = ":" /\ s[17] = ":"

\* The number of days from 1970-01-01 to the given day of the proleptic
\* Gregorian calendar (month 1..12).
DaysFromCivil(year, month, day) ==
    LET y == IF month <= 2 THEN year - 1 ELSE year
        era == y \div 400
        yoe == y - era * 400
        mp == IF month > 2 THEN month - 3 ELSE month + 9
        doy == (153 * mp + 2) \div 5 + day - 1
        doe == yoe * 365 + yoe \div 4 - yoe \div 100 + doy
    IN  era * 146097 + doe - 719468

\* MakeDay(year, monthIndex, date): a month index past 11 runs into the
\* following years.
MakeDay(year, monthIndex, date) ==
    DaysFromCivil(year + (monthIndex \div 12), (monthIndex % 12) + 1, 1) + date - 1

\* A Date's time value, in seconds, of a wall-clock reading taken as UTC.
UtcSeconds(year, monthIndex, date, h, m, sec) ==
    MakeDay(year, monthIndex, date) * 86400 + h * 3600 + m * 60 + sec

\* The same reading taken as local time in a zone tz minutes east of UTC.
LocalSeconds(year, monthIndex, date, h, m, sec, tz) ==
    UtcSeconds(year, monthIndex, date, h, m, sec) - tz * 60

\* getTime() of a Date at a whole second.
GetTime(seconds) == TimesThousand(ToNum(seconds))

\* new Date(s).getTime() for the strings parsed here: a date-only string is
\* taken as UTC, a date-time string without offset as local time, a month
\* outside 01..12 or any other string gives NaN.
DateParse(s, tz) ==
    IF MatchesDateOnly(s) /\ TwoDigits(s, 6) \in 1..12 /\ TwoDigits(s, 9) \in 1..31
    THEN GetTime(UtcSeconds(FourDigits(s, 1), TwoDigits(s, 6) - 1, TwoDigits(s, 9),
                            0, 0, 0))
    ELSE IF /\ MatchesDateTime(s)
            /\ TwoDigits(s, 6) \in 1..12 /\ TwoDigits(s, 9) \in 1..31
            /\ TwoDigits(s, 12) \in 0..23 /\ TwoDigits(s, 15) \in 0..59
            /\ TwoDigits(s, 18) \in 0..59
    THEN GetTime(LocalSeconds(FourDigits(s, 1), TwoDigits(s, 6) - 1, TwoDigits(s, 9),
                              TwoDigits(s, 12), TwoDigits(s, 15), TwoDigits(s, 18), tz))
    ELSE NaN

\* new Date(parseInt(year), parseInt(month) - 1, parseInt(day)).getTime()
LocalMidnight(s, tz) ==
    GetTime(LocalSeconds(FourDigits(s, 1), TwoDigits(s, 6) - 1, TwoDigits(s, 9),
                         0, 0, 0, tz))

\* parseTimestamp in a process whose time zone is tz minutes east of UTC:
\* threw tells whether it threw instead of returning value.
parseTimestamp(timestampStr, tz) ==
    IF parseInt(timestampStr) # NaN /\ MatchesAllDigits(timestampStr)
    THEN [threw |-> FALSE,
          value |-> IF NumLess(parseInt(timestampStr), Year2100)
                    THEN TimesThousand(parseInt(timestampStr))
                    ELSE parseInt(timestampStr)]
    ELSE IF DateParse(timestampStr, tz) # NaN
    THEN [threw |-> FALSE, value |-> DateParse(timestampStr, tz)]
    ELSE IF MatchesDateOnly(timestampStr)
    THEN [threw |-> FALSE, value |-> LocalMidnight(timestampStr, tz)]
    ELSE [threw |-> TRUE, value |-> NaN]

\* The integer of a Number of at most nine digits.
RECURSIVE NumToInt(_)
NumToInt(n) ==
    IF Len(n) = 1 THEN n[1]
    ELSE 10 * NumToInt(SubSeq(n, 1, Len(n) - 1)) + n[Len(n)]

(***************************************************************************)
(* State.                                                                  *)
(***************************************************************************)
VARIABLES
    rEntries,       \* version resolution: the entries of the TimelineFile
    rCall,          \* version resolution: the last call, <<>> before any
    rResult,        \* version resolution: what the last call returned
    rPrev,          \* version resolution: the call before the last and its result
    store,          \* the history store on disk (readdirSync order)
    storeExists,    \* whether timelinePath can be listed
    timelineFiles,  \* VSCodeTimelineExtractor.timelineFiles (one Map object)
    scanned,        \* VSCodeTimelineExtractor.scanned
    log,            \* the parse errors logged by the latest scanTimeline call
    built,          \* history: the index as the last completed scan left it
    last,           \* history: the kind of the latest event
    listPc,         \* where the listFiles command stands
    call,           \* reconstruction: the arguments of the call, <<>> before it
    outcome,        \* reconstruction: what the call did (threw, matching, result)
    dest,           \* reconstruction: the tree under outputDirectory
    before,         \* reconstruction: the call before the last, what it did and left
    pInput,         \* parseTimestamp: the string handed to it
    pZone,          \* parseTimestamp: the process's time zone, minutes east of UTC
    pResult,        \* parseTimestamp: what the call did, <<>> before it
    query,          \* the query under way on the extractor, or the last one served
    config,         \* the setting timelineExtractor.customTimelinePath
    heap,           \* the VSCodeTimelineExtractor objects created, in order
    refs,           \* who holds which extractor: the module, the commands, the tree view
    invoked,        \* the last command or view run, the extractor and path it worked on
    restore,        \* restoreVersion: where it stands, its item and how it ended
    userFile,       \* restoreVersion: the file at the item's original path
    atTime          \* reconstructDirectoryAtTime: where it stands and what it was given

resolveVars == <<rEntries, rCall, rResult, rPrev>>

indexVars == <<store, storeExists, timelineFiles, scanned, log, built, last, listPc>>

reconVars == <<call, outcome, dest, before>>

extensionVars == <<config, heap, refs, invoked>>

restoreVars == <<restore, userFile, atTime>>

commandVars == <<pInput, pZone, pResult, query, config, heap, refs, invoked, restore, userFile, atTime>>

vars == <<rEntries, rCall, rResult, rPrev,
          store, storeExists, timelineFiles, scanned, log, built, last, listPc,
          call, outcome, dest, before,
          pInput, pZone, pResult, query, config, heap, refs, invoked, restore, userFile, atTime>>

NoCall == <<>>

EmptyDir == <<>>

ReconIdle ==
    /\ call = NoCall
    /\ outcome = Undefined
    /\ dest = EmptyDir
    /\ before = <<>>

IndexIdle ==
    /\ store = <<>>
    /\ storeExists = TRUE
    /\ timelineFiles = EmptyMap
    /\ scanned = FALSE
    /\ log = <<>>
    /\ built = EmptyMap
    /\ last = "none"
    /\ listPc = "idle"

ResolveIdle ==
    /\ rEntries = <<>>
    /\ rCall = <<>>
    /\ rResult = Undefined
    /\ rPrev = <<>>

\* The answer to a prompt: dismissed, or the text (or path) entered.
Dismissed == [given |-> FALSE, text |-> <<>>]

Entered(text) == [given |-> TRUE, text |-> text]

NoAtTime ==
    [pc |-> "idle", asked |-> <<>>, uri |-> Dismissed, source |-> Dismissed,
     timestampInput |-> Dismissed, output |-> Dismissed, sourceDirectory |-> <<>>,
     timestamp |-> <<>>, exportMetadata |-> FALSE, ended |-> "none"]

NoRestore == [pc |-> "idle", item |-> <<>>, answer |-> "none", ended |-> "none"]

\* What the file at the item's original path holds before any restore.
CurrentContent == << [current |-> TRUE] >>

NoQuery == [pc |-> "idle", op |-> "none", arg |-> <<>>, value |-> <<>>]

CommandIdle ==
    /\ pInput = <<>>
    /\ pZone = 0
    /\ pResult = <<>>
    /\ query = NoQuery
    /\ config = ""
    /\ heap = <<>>
    /\ refs = <<>>
    /\ invoked = <<>>
    /\ restore = NoRestore
    /\ userFile = CurrentContent
    /\ atTime = NoAtTime

(***************************************************************************)
(* Version resolution on every entries list up to MaxEntries.              *)
(***************************************************************************)
FileEntry == [id : Ids, timestamp : 0..MaxTime]

RECURSIVE SeqsUpTo(_, _)
SeqsUpTo(S, n) ==
    IF n = 0 THEN { <<>> }
    ELSE LET shorter == SeqsUpTo(S, n - 1)
         IN  shorter \cup { Append(s, x) : s \in shorter, x \in S }

ResolveInit ==
    /\ rEntries \in SeqsUpTo(FileEntry, MaxEntries)
    /\ rCall = <<>>
    /\ rResult = Undefined
    /\ rPrev = <<>>
    /\ IndexIdle
    /\ ReconIdle
    /\ CommandIdle

CallGetEntryAtTimestamp ==
    \E t \in 0..MaxTime :
        /\ rCall' = <<"getEntryAtTimestamp", t>>
        /\ rResult' = getEntryAtTimestamp(rEntries, t)
        /\ rPrev' = <<rCall, rResult>>
        /\ UNCHANGED <<rEntries, indexVars, reconVars, commandVars>>

CallLatestEntry ==
    /\ rCall' = <<"latestEntry">>
    /\ rResult' = latestEntry(rEntries)
    /\ rPrev' = <<rCall, rResult>>
    /\ UNCHANGED <<rEntries, indexVars, reconVars, commandVars>>

ResolveNext ==
    \/ CallGetEntryAtTimestamp
    \/ CallLatestEntry

SpecResolve == ResolveInit /\ [][ResolveNext]_vars

EntrySet(entries) == { entries[i] : i \in 1..Len(entries) }

\* C1: getEntryAtTimestamp(t) returns absent exactly when no version has
\* timestamp <= t; otherwise it returns one of the file's versions, whose
\* timestamp is <= t and is the maximum among the versions with timestamp <= t.
C1_ResolveAtMax ==
    (rCall # <<>> /\ rCall[1] = "getEntryAtTimestamp") =>
        LET t == rCall[2]
            valid == { e \in EntrySet(rEntries) : e.timestamp <= t }
        IN  /\ (rResult = Undefined) <=> (valid = {})
            /\ rResult # Undefined =>
                 /\ rResult[1] \in valid
                 /\ \A e \in valid : e.timestamp <= rResult[1].timestamp

\* A call with an instant that precedes every version of a non-empty file, and
\* a call that had to choose among several versions not newer than the instant.
C1_Witness ==
    /\ rCall # <<>> /\ rCall[1] = "getEntryAtTimestamp"
    /\ Len(rEntries) = 3
    /\ rEntries[1].timestamp = 1 /\ rEntries[2].timestamp = 2 /\ rEntries[3].timestamp = 0
    /\ rCall[2] = 1
    /\ rResult = Some(rEntries[1])

\* C11: when getEntryAtTimestamp(t1) returned a version and t1 < t2, then
\* getEntryAtTimestamp(t2) on the same file returns a version too, and its
\* timestamp is not earlier.
C11_ResolveMonotonic ==
    (/\ rPrev # <<>> /\ rPrev[1] # <<>>
     /\ rPrev[1][1] = "getEntryAtTimestamp" /\ rCall[1] = "getEntryAtTimestamp"
     /\ rPrev[1][2] < rCall[2]
     /\ rPrev[2] # Undefined) =>
        /\ rResult # Undefined
        /\ rPrev[2][1].timestamp <= rResult[1].timestamp

\* Two calls in a row at instants 0 and 2 on a file with versions at 0, 1 and
\* 2: the later instant resolves to a later version.
C11_Witness ==
    /\ rPrev # <<>> /\ rPrev[1] = <<"getEntryAtTimestamp", 0>>
    /\ rCall = <<"getEntryAtTimestamp", 2>>
    /\ { rEntries[i].timestamp : i \in 1..Len(rEntries) } = {0, 1, 2}
    /\ rPrev[2] # Undefined /\ rPrev[2][1].timestamp = 0
    /\ rResult # Undefined /\ rResult[1].timestamp = 2

\* C13: latestEntry returns a version with the maximum timestamp, and of
\* several versions with that timestamp the one latest in the entries list.
C13_LatestTieLaterWins ==
    (rCall = <<"latestEntry">> /\ Len(rEntries) > 0) =>
        LET top == { i \in 1..Len(rEntries) :
                       \A j \in 1..Len(rEntries) :
                           rEntries[j].timestamp <= rEntries[i].timestamp }
            lastTop == CHOOSE i \in top : \A j \in top : j <= i
        IN  rResult = Some(rEntries[lastTop])

(***************************************************************************)
(* The index and its readers: scanTimeline, refresh, the listFiles command *)
(* (the shape of every reader: ensureScanned, an await, then the index is  *)
(* read) and the editor changing the store underneath.                     *)
(***************************************************************************)
Uri(path) == <<FileScheme>> \o path

PathPX == <<"/", "p", "/", "x">>

PathPQX == <<"/", "p", "q", "/", "x">>

\* file:///p/%78 names /p/x as well.
UriPXEscaped == <<FileScheme, "/", "p", "/", "%78">>

OneVersion == << RawEntry("a", 1) >>

\* The second descriptor has neither id nor timestamp.
TwoVersions == << RawEntry("b", 2), [id |-> Undefined, timestamp |-> Undefined] >>

\* Two descriptors of one manifest with the same id.
SameIdTwice == << RawEntry("a", 1), RawEntry("a", 2) >>

StoreItems ==
    { NotADirectory, NoManifest, Corrupt,
      Manifest(Some(Uri(PathPX)), SameIdTwice, {"a"}),
      Manifest(Undefined, OneVersion, {"a"}),
      Manifest(Some(Uri(PathPX)), OneVersion, {"a"}),
      Manifest(Some(UriPXEscaped), TwoVersions, {"b"}),
      Manifest(Some(Uri(PathPQX)), OneVersion, {"a"}),
      Manifest(Some(PathPQX), TwoVersions, {"b"}) }

Stores == { <<i1, i2>> : i1 \in StoreItems, i2 \in StoreItems }

Init ==
    /\ ResolveIdle
    /\ ReconIdle
    /\ CommandIdle
    /\ store \in Stores
    /\ storeExists = TRUE
    /\ timelineFiles = EmptyMap
    /\ scanned = FALSE
    /\ log = <<>>
    /\ built = EmptyMap
    /\ last = "none"
    /\ listPc = "idle"

\* The effect of one scanTimeline call on the extractor; scannedOnThrow is
\* the value this.scanned keeps when readdirSync throws.
RunScan(scannedOnThrow) ==
    \E o \in { scanTimeline(store, storeExists, timelineFiles) } :
        /\ timelineFiles' = o.files
        /\ log' = o.log
        /\ scanned' = IF o.ok THEN TRUE ELSE scannedOnThrow
        /\ built' = IF o.ok THEN o.files ELSE built
        /\ last' = IF o.ok THEN "scanOk" ELSE "scanFailed"

\* extractor.scanTimeline(), as activate calls it.
ScanTimeline ==
    /\ RunScan(scanned)
    /\ UNCHANGED <<store, storeExists, listPc, resolveVars, commandVars, reconVars>>

\* extractor.refresh(): this.scanned = false, then scanTimeline().
Refresh ==
    /\ RunScan(FALSE)
    /\ UNCHANGED <<store, storeExists, listPc, resolveVars, commandVars, reconVars>>

\* listFiles calls getAllFiles, which runs ensureScanned up to its await; a
\* scan that throws rejects the call and listFiles reports the error.
ListFilesCall ==
    /\ listPc = "idle"
    /\ IF ~ShouldScan(scanned)
       THEN /\ listPc' = "getAllFiles"
            /\ UNCHANGED <<timelineFiles, log, scanned, built, last>>
       ELSE /\ RunScan(scanned)
            /\ listPc' = IF storeExists THEN "getAllFiles" ELSE "idle"
    /\ UNCHANGED <<store, storeExists, resolveVars, commandVars, reconVars>>

\* getAllFiles resumes and returns this.timelineFiles, the Map object itself;
\* listFiles reads it to build the pick list and awaits the user's choice.
GetAllFilesReturn ==
    /\ listPc = "getAllFiles"
    /\ listPc' = "quickPick"
    /\ last' = "read"
    /\ UNCHANGED <<store, storeExists, timelineFiles, scanned, log, built, resolveVars, commandVars, reconVars>>

\* The user chose: listFiles looks the choice up in the Map it was given.
QuickPickDone ==
    /\ listPc = "quickPick"
    /\ listPc' = "idle"
    /\ last' = "read"
    /\ UNCHANGED <<store, storeExists, timelineFiles, scanned, log, built, resolveVars, commandVars, reconVars>>

\* The editor rewrites one item of the store.
StoreWrite ==
    \E i \in 1..Len(store), item \in StoreItems :
        /\ item # store[i]
        /\ store' = [store EXCEPT ![i] = item]
        /\ last' = "storeChanged"
        /\ UNCHANGED <<storeExists, timelineFiles, scanned, log, built, listPc, resolveVars, commandVars, reconVars>>

\* timelinePath disappears (deleted, unmounted) or comes back.
StoreToggle ==
    /\ storeExists' = ~storeExists
    /\ last' = "storeChanged"
    /\ UNCHANGED <<store, timelineFiles, scanned, log, built, listPc, resolveVars, commandVars, reconVars>>

Next ==
    \/ ScanTimeline
    \/ Refresh
    \/ ListFilesCall
    \/ GetAllFilesReturn
    \/ QuickPickDone
    \/ StoreWrite
    \/ StoreToggle

Spec == Init /\ [][Next]_vars

\* The items of the store that scanTimeline turns into a tracked file.
ValidItems(items) ==
    { i \in 1..Len(items) : items[i].kind = "manifest" /\ items[i].resource # Undefined }

ResolvedPath(item) == decodeFileUri(item.resource[1])

LoggedDirs == { log[k] : k \in 1..Len(log) }

\* C6: a scan that fails leaves the index it found untouched: every tracked
\* file and version held before the failed scanTimeline or refresh call is
\* still held after it.
C6_FailedScanKeepsIndex ==
    [][last' = "scanFailed" => timelineFiles' = timelineFiles]_vars

\* C7: the contents of the index that getAllFiles handed out do not change
\* while the caller holds it, whatever scan or refresh runs meanwhile.
C7_HeldIndexUnchanged ==
    [][(listPc = "quickPick" /\ listPc' = "quickPick")
         => timelineFiles' = timelineFiles]_vars

\* C8: whenever a reader reads the index, it reads the index that a completed
\* scan built, never one that holds only part of it.
C8_ReadersSeeCompleteIndex ==
    last = "read" => timelineFiles = built

\* C9: a scan is never stopped by an item of the store: right after a scan of
\* a readable store the index holds the tracked file of every sub-directory
\* with a valid manifest, a manifest that failed to parse was logged, and a
\* sub-directory without manifest or without resource was skipped unlogged;
\* a scan fails only when the store itself cannot be listed.
C9_ScanToleratesBadItems ==
    /\ last = "scanFailed" => ~storeExists
    /\ last = "scanOk" =>
         /\ scanned
         /\ \A i \in ValidItems(store) : MapHas(timelineFiles, ResolvedPath(store[i]))
         /\ \A i \in 1..Len(store) : (i \in LoggedDirs) <=> (store[i].kind = "corrupt")

\* A scan met a manifest that does not parse, then a valid one.
C9_Witness ==
    /\ last = "scanOk"
    /\ store[1] = Corrupt
    /\ 2 \in ValidItems(store)
    /\ MapKeys(timelineFiles) = {PathPQX}
    /\ log = <<1>>

\* C10: right after a completed scan the index holds exactly one tracked file
\* per resolved resource path of the valid manifests now in the store, each
\* made of one such manifest (its resource, its directory, its entries with
\* the defaults filled in), and nothing else.
C10_IndexMatchesStore ==
    last = "scanOk" =>
        /\ MapKeys(timelineFiles) = { ResolvedPath(store[i]) : i \in ValidItems(store) }
        /\ Cardinality(MapKeys(timelineFiles)) = Len(timelineFiles)
        /\ \A k \in 1..Len(timelineFiles) :
             \E i \in ValidItems(store) :
                /\ timelineFiles[k].key = ResolvedPath(store[i])
                /\ timelineFiles[k].value = parseEntriesFile(store[i], i).file[1]

\* C14: in the index a scan leaves, no tracked file holds two versions with
\* the same id.
C14_IdsUniquePerFile ==
    \A k \in 1..Len(timelineFiles) :
        LET entries == timelineFiles[k].value.entries
        IN  \A i, j \in 1..Len(entries) : entries[i].id = entries[j].id => i = j

\* A refresh completed while listFiles still held the index of an earlier
\* scan; the two manifests of the store name the same path.
C10_Witness ==
    /\ last = "scanOk"
    /\ listPc = "quickPick"
    /\ ValidItems(store) = {1, 2}
    /\ ResolvedPath(store[1]) = ResolvedPath(store[2])
    /\ store[1].resource # store[2].resource
    /\ Len(timelineFiles) = 1
    /\ timelineFiles[1].value.timelineDir = 2

(***************************************************************************)
(* One reconstruction into an empty output directory, from every store of  *)
(* three sub-directories drawn from ReconItems.                            *)
(***************************************************************************)
PathPY == <<"/", "p", "/", "y">>

\* /p/..x: a file under /p whose name begins with two dots.
PathPDotsX == <<"/", "p", "/", ".", ".", "x">>

PathPE == <<"/", "p", "/", "e">>

\* /p//x: another spelling of /p/x.
PathPSlashX == <<"/", "p", "/", "/", "x">>

DirP == <<"/", "p">>

DirPSlash == <<"/", "p", "/">>

DirQ == <<"/", "q">>

SourceDirs == {DirP, DirPSlash, DirQ}

ReconItems ==
    { NoManifest,
      Manifest(Some(Uri(PathPX)), << RawEntry("a", 1), RawEntry("b", 2) >>, {"a", "b"}),
      Manifest(Some(Uri(PathPX)), << RawEntry("a", 1), RawEntry("b", 2) >>, {"a"}),
      Manifest(Some(Uri(PathPY)), << RawEntry("a", 2) >>, {"a"}),
      Manifest(Some(Uri(PathPY)), << RawEntry("a", 2) >>, {}),
      Manifest(Some(Uri(PathPQX)), << RawEntry("a", 1) >>, {"a"}),
      Manifest(Some(Uri(PathPDotsX)), << RawEntry("a", 1) >>, {"a"}),
      Manifest(Some(Uri(PathPE)), <<>>, {}),
      Manifest(Some(Uri(PathPSlashX)), << RawEntry("a", 1) >>, {"a"}) }

ReconStores == { <<i1, i2, i3>> : i1 \in ReconItems, i2 \in ReconItems, i3 \in ReconItems }

NoFaults == [copy |-> {}, hash |-> {}, op |-> "none"]

\* At most one step of a call faults: the copy or the hashing of one
\* sub-directory's blob, or a step of the call as a whole.
Faults ==
    {NoFaults}
    \cup { [NoFaults EXCEPT !.copy = {i}] : i \in 1..3 }
    \cup { [NoFaults EXCEPT !.hash = {i}] : i \in 1..3 }
    \cup { [NoFaults EXCEPT !.op = o] : o \in {"mkdir", "write"} }

Instants == {Undefined} \cup { Some(t) : t \in 0..MaxTime }

ReconInit ==
    /\ ResolveIdle
    /\ ReconIdle
    /\ CommandIdle
    /\ store \in ReconStores
    /\ storeExists \in BOOLEAN
    /\ timelineFiles = EmptyMap
    /\ scanned = FALSE
    /\ log = <<>>
    /\ built = EmptyMap
    /\ last = "none"
    /\ listPc = "idle"

\* extractor.reconstructDirectory(sourceDirectory, outputDirectory,
\* exportMetadata, atTimestamp): ensureScanned (the call rejects when the scan
\* throws), then filterByDirectory and the loop over the matching files.
ReconstructDirectory ==
    /\ call = NoCall
    /\ \E sourceDirectory \in SourceDirs, exportMetadata \in BOOLEAN,
          atTimestamp \in Instants, faults \in Faults :
        \* without exportMetadata nothing is hashed and no document is written
        /\ exportMetadata \/ (faults.hash = {} /\ faults.op # "write")
        /\ call' = [sourceDirectory |-> sourceDirectory,
                    exportMetadata |-> exportMetadata,
                    atTimestamp |-> atTimestamp, faults |-> faults]
        /\ IF ~ShouldScan(scanned)
           THEN UNCHANGED <<timelineFiles, log, scanned, built, last>>
           ELSE RunScan(scanned)
        /\ IF ShouldScan(scanned) /\ ~storeExists
           THEN /\ outcome' = Some([threw |-> TRUE, matching |-> EmptyMap,
                                    result |-> Undefined])
                /\ dest' = dest
           ELSE \E o \in { reconstructDirectory(timelineFiles', store, sourceDirectory,
                               exportMetadata, atTimestamp, faults, dest) } :
                    /\ outcome' = Some([threw |-> o.threw, matching |-> o.matching,
                                        result |-> o.result])
                    /\ dest' = o.dest
    /\ UNCHANGED <<store, storeExists, listPc, resolveVars, commandVars, before>>

ReconNext ==
    \/ ReconstructDirectory
    \/ (call = NoCall /\ ScanTimeline)

SpecRecon == ReconInit /\ [][ReconNext]_vars

(***************************************************************************)
(* Two reconstructions in a row into the same output directory: the second *)
(* call repeats the first one's arguments, at any instant.                 *)
(***************************************************************************)
AgainItems ==
    { NoManifest,
      Manifest(Some(Uri(PathPX)), << RawEntry("a", 1), RawEntry("b", 2) >>, {"a", "b"}),
      Manifest(Some(Uri(PathPY)), << RawEntry("a", 2) >>, {"a"}),
      Manifest(Some(Uri(PathPY)), << RawEntry("a", 2) >>, {}),
      Manifest(Some(Uri(PathPQX)), << RawEntry("a", 1) >>, {"a"}),
      Manifest(Some(Uri(PathPSlashX)), << RawEntry("a", 1) >>, {"a"}),
      Manifest(Some(Uri(PathPE)), <<>>, {}) }

AgainStores == { <<i1, i2>> : i1 \in AgainItems, i2 \in AgainItems }

AgainInit ==
    /\ ResolveIdle
    /\ ReconIdle
    /\ CommandIdle
    /\ store \in AgainStores
    /\ storeExists = TRUE
    /\ timelineFiles = EmptyMap
    /\ scanned = FALSE
    /\ log = <<>>
    /\ built = EmptyMap
    /\ last = "none"
    /\ listPc = "idle"

\* A second extractor.reconstructDirectory call with the same outputDirectory,
\* on the index the first call scanned.
ReconstructAgain ==
    /\ call # NoCall
    /\ before = <<>>
    /\ scanned
    /\ \E atTimestamp \in Instants :
        /\ before' = [call |-> call, outcome |-> outcome[1], dest |-> dest]
        /\ call' = [call EXCEPT !.atTimestamp = atTimestamp]
        /\ \E o \in { reconstructDirectory(timelineFiles, store, call.sourceDirectory,
                            call.exportMetadata, atTimestamp, call.faults, dest) } :
                /\ outcome' = Some([threw |-> o.threw, matching |-> o.matching,
                                    result |-> o.result])
                /\ dest' = o.dest
    /\ UNCHANGED <<indexVars, resolveVars, commandVars>>

AgainNext ==
    \/ ReconstructDirectory
    \/ ReconstructAgain

SpecAgain == AgainInit /\ [][AgainNext]_vars

\* path is directoryPath itself or lies below it: the separator boundary.
Under(directoryPath, path) ==
    LET d == PathResolve(directoryPath)
    IN  \/ path = d
        \/ StartsWith(path, IF EndsWith(d, <<Sep>>) THEN d ELSE d \o <<Sep>>)

\* The index entries a call on directoryPath is about.
TrackedUnder(directoryPath) ==
    { k \in 1..Len(timelineFiles) : Under(directoryPath, timelineFiles[k].key) }

\* A call was made on a scanned index and nothing was made to fault.
CleanCall ==
    /\ call # NoCall
    /\ last = "scanOk"
    /\ call.faults = NoFaults

RelativeTo(directoryPath, path) == PathRelative(PathResolve(directoryPath), path)

ErrorsNaming(result, path) ==
    { j \in 1..Len(result.errors) : result.errors[j].file = path }

Range(seq) == { seq[j] : j \in 1..Len(seq) }

\* C2: every file filterByDirectory(D) returns has a path that equals D or
\* begins with D followed by a path separator.
C2_FilterKeepsBoundary ==
    call # NoCall =>
        \A k \in 1..Len(outcome[1].matching) :
            Under(call.sourceDirectory, outcome[1].matching[k].key)

\* C3: when no tracked file lies under the source directory,
\* reconstructDirectory returns success = false with the error set,
\* filesProcessed = 0, no files and no errors.
C3_NothingUnderFails ==
    (CleanCall /\ TrackedUnder(call.sourceDirectory) = {}) =>
        /\ outcome[1].result # Undefined
        /\ LET result == outcome[1].result[1]
           IN  /\ ~result.success
               /\ result.error # Undefined
               /\ result.filesProcessed = 0
               /\ result.files = <<>>
               /\ result.errors = <<>>

\* C4: when the blob of the resolved version of a file under the source
\* directory is missing, the result has exactly one error naming that file,
\* does not count the file, holds every other file under the directory whose
\* blob exists, and has success = true.
C4_MissingBlobIsOneError ==
    CleanCall =>
        LET D == call.sourceDirectory
            Entry(k) == ResolveEntry(timelineFiles[k].value, call.atTimestamp)
            HasBlob(k) == BlobExists(store, timelineFiles[k].value.timelineDir,
                                     Entry(k)[1].id)
            Missing == { k \in TrackedUnder(D) : Entry(k) # Undefined /\ ~HasBlob(k) }
            Present == { k \in TrackedUnder(D) : Entry(k) # Undefined /\ HasBlob(k) }
        IN  Missing # {} =>
              /\ outcome[1].result # Undefined
              /\ LET result == outcome[1].result[1]
                 IN  /\ result.success
                     /\ result.filesProcessed = Cardinality(Present)
                     /\ \A k \in Missing :
                          /\ Cardinality(ErrorsNaming(result, timelineFiles[k].key)) = 1
                          /\ RelativeTo(D, timelineFiles[k].key) \notin Range(result.files)
                          /\ RelativeTo(D, timelineFiles[k].key) \notin DOMAIN dest
                     /\ \A k \in Present :
                          /\ RelativeTo(D, timelineFiles[k].key) \in Range(result.files)
                          /\ RelativeTo(D, timelineFiles[k].key) \in DOMAIN dest
                          /\ dest[RelativeTo(D, timelineFiles[k].key)] =
                               BlobContent(timelineFiles[k].value.timelineDir,
                                           Entry(k)[1].id)

\* The matching files whose copy or hashing the call made to fault.
Faulted ==
    LET m == outcome[1].matching
        Entry(k) == ResolveEntry(m[k].value, call.atTimestamp)
        rel(k) == calculateRelativePath(m[k].key, PathResolve(call.sourceDirectory))
    IN  { k \in 1..Len(m) :
            /\ Entry(k) # Undefined
            /\ rel(k) # Undefined /\ rel(k)[1] # <<>>
            /\ BlobExists(store, m[k].value.timelineDir, Entry(k)[1].id)
            /\ \/ m[k].value.timelineDir \in call.faults.copy
               \/ /\ call.exportMetadata
                  /\ m[k].value.timelineDir \in call.faults.hash }

\* C5: a fault in the copy or the hashing of one file becomes an entry of
\* errors naming the file and never makes reconstructDirectory throw; when
\* at least one file matched and the call returned, success is true however
\* many errors there are.
C5_FaultsBecomeErrors ==
    (call # NoCall /\ last = "scanOk") =>
        /\ outcome[1].threw => call.faults.op \in {"mkdir", "write"}
        /\ (~outcome[1].threw /\ Len(outcome[1].matching) > 0) =>
             LET result == outcome[1].result[1]
             IN  /\ result.success
                 /\ \A k \in Faulted :
                      ErrorsNaming(result, outcome[1].matching[k].key) # {}

C5_Witness ==
    /\ call # NoCall
    /\ last = "scanOk"
    /\ ~outcome[1].threw
    /\ Faulted # {}
    /\ outcome[1].result[1].success
    /\ Len(outcome[1].result[1].errors) = 2
    /\ \E j \in 1..2 : outcome[1].result[1].errors[j].error = "copyFile threw"

\* The call returned a result for a non-empty set of matching files.
Returned ==
    /\ call # NoCall
    /\ last = "scanOk"
    /\ ~outcome[1].threw
    /\ Len(outcome[1].matching) > 0

\* The file has no version the call can take: none at all, or none with a
\* timestamp <= the instant.
NoVersionAt(timelineFile, atTimestamp) ==
    \A i \in 1..Len(timelineFile.entries) :
        /\ atTimestamp # Undefined
        /\ timelineFile.entries[i].timestamp > atTimestamp[1]

\* The relative path begins with a parent-traversal segment.
Escapes(relative) == Split(relative)[1] = DotDot

\* C15: a matching file without a version for the call is neither in files
\* nor in errors, nothing is written at its place, and the other files are
\* still processed: each one with a version, a place inside the source
\* directory, its blob and no fault is in files.
C15_AbsentIsSkipped ==
    (Returned /\ call.faults.op = "none") =>
        LET m == outcome[1].matching
            result == outcome[1].result[1]
            D == call.sourceDirectory
            Absent == { k \in 1..Len(m) : NoVersionAt(m[k].value, call.atTimestamp) }
            \* where the files that do have a version are written
            taken == { RelativeTo(D, m[k].key) : k \in (1..Len(m)) \ Absent }
            faulted == Faulted
        IN  /\ \A k \in Absent :
                 /\ ErrorsNaming(result, m[k].key) = {}
                 /\ RelativeTo(D, m[k].key) \notin taken =>
                      /\ RelativeTo(D, m[k].key) \notin Range(result.files)
                      /\ RelativeTo(D, m[k].key) \notin DOMAIN dest
            /\ \A k \in (1..Len(m)) \ Absent :
                 (/\ ~StartsWith(RelativeTo(D, m[k].key), DotDot)
                  /\ RelativeTo(D, m[k].key) # <<>>
                  /\ k \notin faulted
                  /\ \A i \in 1..Len(m[k].value.entries) :
                        BlobExists(store, m[k].value.timelineDir, m[k].value.entries[i].id))
                 => RelativeTo(D, m[k].key) \in Range(result.files)

\* /p/x has a version at instant 1 and /p/y has none: x is written, y is
\* skipped and is no error.
C15_Witness ==
    /\ Returned
    /\ call.atTimestamp = Some(1)
    /\ call.faults = NoFaults
    /\ MapKeys(outcome[1].matching) = {PathPX, PathPY}
    /\ outcome[1].result[1].files = << <<"x">> >>
    /\ outcome[1].result[1].errors = <<>>
    /\ outcome[1].result[1].skippedFiles = Some(1)
    /\ DOMAIN dest = { <<"x">> }

\* C16: with an instant, skippedFiles is the number of matching files that
\* have no version with timestamp <= the instant.
C16_SkipCountIsAbsentCount ==
    (Returned /\ call.atTimestamp # Undefined) =>
        outcome[1].result[1].skippedFiles =
            Some(Cardinality({ k \in 1..Len(outcome[1].matching) :
                                 NoVersionAt(outcome[1].matching[k].value,
                                             call.atTimestamp) }))

\* C17: a matching file whose relative path begins with a parent-traversal
\* segment is in neither files nor errors, and every path written is a
\* relative path that stays inside the destination directory.
C17_EscapingIsSkipped ==
    call # NoCall =>
        /\ \A p \in DOMAIN dest :
             /\ p # <<>>
             /\ Head(p) # Sep
             /\ ~Escapes(p)
        /\ Returned =>
             \A k \in 1..Len(outcome[1].matching) :
                 Escapes(RelativeTo(call.sourceDirectory, outcome[1].matching[k].key)) =>
                     /\ ErrorsNaming(outcome[1].result[1], outcome[1].matching[k].key) = {}
                     /\ RelativeTo(call.sourceDirectory, outcome[1].matching[k].key)
                          \notin Range(outcome[1].result[1].files)

\* The filter returned /pq/x for /p along with /p/x: x is written, ../pq/x is
\* not, and there is no error.
C17_Witness ==
    /\ Returned
    /\ call.sourceDirectory = DirP
    /\ MapKeys(outcome[1].matching) = {PathPX, PathPQX}
    /\ DOMAIN dest = { <<"x">> }
    /\ outcome[1].result[1].errors = <<>>
    /\ outcome[1].result[1].filesProcessed = 1

\* C18: the files written and their contents are the same when the matching
\* files are processed in the opposite order.
C18_OrderInsensitive ==
    (Returned /\ call.faults.op = "none") =>
        LET m == outcome[1].matching
            opposite == ReconstructLoop([i \in 1..Len(m) |-> m[Len(m) + 1 - i]], 1,
                            PathResolve(call.sourceDirectory), call.atTimestamp,
                            call.exportMetadata, store, call.faults,
                            [processedFiles |-> <<>>, skippedFiles |-> <<>>,
                             errors |-> <<>>, metadataEntries |-> <<>>,
                             dest |-> EmptyDir])
        IN  /\ DOMAIN opposite.dest = DOMAIN dest \ {METADATA_FILENAME}
            /\ \A p \in DOMAIN opposite.dest : opposite.dest[p] = dest[p]
            /\ Range(opposite.processedFiles) = Range(outcome[1].result[1].files)
            /\ Range(opposite.errors) = Range(outcome[1].result[1].errors)

\* C20: with exportMetadata set the document holds one record per file in
\* files, in the same order, and totalFiles = filesProcessed; the document is
\* written when, and only when, exportMetadata is set and a file was
\* materialized.
C20_OneRecordPerFile ==
    Returned =>
        LET result == outcome[1].result[1]
        IN  /\ (METADATA_FILENAME \in DOMAIN dest)
                 <=> (call.exportMetadata /\ result.filesProcessed > 0)
            /\ METADATA_FILENAME \in DOMAIN dest =>
                 /\ dest[METADATA_FILENAME].totalFiles = result.filesProcessed
                 /\ Len(dest[METADATA_FILENAME].files) = result.filesProcessed
                 /\ \A i \in 1..result.filesProcessed :
                      dest[METADATA_FILENAME].files[i].relativePath = result.files[i]

\* Two files materialized with exportMetadata set, a third matching file in
\* error: the document has two records.
C20_Witness ==
    /\ Returned
    /\ call.exportMetadata
    /\ outcome[1].result[1].filesProcessed = 2
    /\ Len(outcome[1].result[1].errors) = 1
    /\ METADATA_FILENAME \in DOMAIN dest
    /\ dest[METADATA_FILENAME].totalFiles = 2

\* The files of a destination tree other than the metadata document.
Contents(tree) == [p \in (DOMAIN tree) \ {METADATA_FILENAME} |-> tree[p]]

\* The records of the metadata document of a tree, <<>> when it has none.
Records(tree) ==
    IF METADATA_FILENAME \in DOMAIN tree THEN tree[METADATA_FILENAME].files ELSE <<>>

\* The instant is at or after every version timestamp of the matching files.
AtOrAfterAll(atTimestamp, matching) ==
    /\ atTimestamp # Undefined
    /\ \A k \in 1..Len(matching) :
         \A i \in 1..Len(matching[k].value.entries) :
             matching[k].value.entries[i].timestamp <= atTimestamp[1]

\* C12: a call without instant and a call with an instant at or after the
\* latest version timestamp of the matching files, otherwise alike,
\* materialize the same files in the same versions.
C12_NoInstantIsLatestInstant ==
    (/\ before # <<>>
     /\ \/ /\ before.call.atTimestamp = Undefined
           /\ AtOrAfterAll(call.atTimestamp, outcome[1].matching)
        \/ /\ call.atTimestamp = Undefined
           /\ AtOrAfterAll(before.call.atTimestamp, outcome[1].matching)) =>
        /\ outcome[1].threw = before.outcome.threw
        /\ outcome[1].matching = before.outcome.matching
        /\ ~outcome[1].threw =>
             /\ outcome[1].result[1].files = before.outcome.result[1].files
             /\ outcome[1].result[1].errors = before.outcome.result[1].errors
             /\ Contents(dest) = Contents(before.dest)
             /\ Len(Records(dest)) = Len(Records(before.dest))
             /\ \A i \in 1..Len(Records(dest)) :
                  /\ Records(dest)[i].relativePath = Records(before.dest)[i].relativePath
                  /\ Records(dest)[i].entryId = Records(before.dest)[i].entryId

\* /p/x has versions at 1 and 2: the call without instant and the call at
\* instant 2 both wrote version b.
C12_Witness ==
    /\ before # <<>>
    /\ before.call.atTimestamp = Undefined
    /\ call.atTimestamp = Some(2)
    /\ call.exportMetadata
    /\ PathPX \in MapKeys(outcome[1].matching)
    /\ <<"x">> \in DOMAIN dest
    /\ dest[<<"x">>].id = "b"
    /\ before.dest[<<"x">>].id = "b"

\* C19: the same call made twice into the same destination leaves the
\* destination, files and metadata document, as the first call left it.
C19_SecondRunChangesNothing ==
    (before # <<>> /\ call = before.call) =>
        /\ dest = before.dest
        /\ outcome[1] = before.outcome

\* The same call twice, with exportMetadata, two files written and the
\* document with them.
C19_Witness ==
    /\ before # <<>>
    /\ call = before.call
    /\ call.exportMetadata
    /\ ~outcome[1].threw
    /\ outcome[1].result[1].filesProcessed = 2
    /\ METADATA_FILENAME \in DOMAIN dest
    /\ before.dest = dest

(***************************************************************************)
(* parseTimestamp on the strings a user may type, in several time zones.   *)
(***************************************************************************)
\* The decimal string of a Number.
Chars(n) == [i \in 1..Len(n) |-> DigitChars[n[i] + 1]]

Pad2(k) == <<DigitChars[(k \div 10) + 1], DigitChars[(k % 10) + 1]>>

DateString(year, month, day) ==
    Pad2(year \div 100) \o Pad2(year % 100) \o <<"-">> \o Pad2(month) \o <<"-">> \o Pad2(day)

TimeString(h, m, sec) == Pad2(h) \o <<":">> \o Pad2(m) \o <<":">> \o Pad2(sec)

\* Integers around the seconds/milliseconds threshold and around 2^53.
DigitInputs ==
    { <<0>>, <<7>>,
      <<1, 7, 5, 1, 0, 5, 5, 0, 0, 0>>,
      <<1, 7, 5, 1, 0, 5, 5, 0, 0, 0, 0, 0, 0>>,
      <<4, 1, 0, 2, 4, 4, 4, 7, 9, 9>>,
      Year2100,
      <<4, 1, 0, 2, 4, 4, 4, 8, 0, 1>>,
      <<9, 0, 0, 7, 1, 9, 9, 2, 5, 4, 7, 4, 0, 9, 9, 1>>,
      TwoTo53,
      <<9, 0, 0, 7, 1, 9, 9, 2, 5, 4, 7, 4, 0, 9, 9, 3>>,
      <<9, 0, 0, 7, 1, 9, 9, 2, 5, 4, 7, 4, 0, 9, 9, 4>>,
      <<9, 0, 0, 7, 1, 9, 9, 2, 5, 4, 7, 4, 0, 9, 9, 5>>,
      <<9, 9, 9, 9, 9, 9, 9, 9, 9, 9, 9, 9, 9, 9, 9, 9>> }

DateInputs ==
    { DateString(2025, month, day) : month \in {1, 6, 12, 13}, day \in {1, 27} }

ParseInputs ==
    { Chars(n) : n \in DigitInputs }
    \cup { <<"0", "0">> \o Chars(n) : n \in { d \in DigitInputs : Len(d) <= 13 } }
    \cup DateInputs
    \cup { d \o <<sep>> \o TimeString(h, 30, 0) :
             d \in DateInputs, sep \in {"T", " "}, h \in {0, 14} }
    \cup { <<>>, <<"n", "o", "w">> }

\* Minutes east of UTC.
TimeZones == {-300, 0, 120, 330}

ParseInit ==
    /\ ResolveIdle
    /\ IndexIdle
    /\ ReconIdle
    /\ pInput \in ParseInputs
    /\ pZone \in TimeZones
    /\ pResult = <<>>
    /\ query = NoQuery
    /\ config = ""
    /\ heap = <<>>
    /\ refs = <<>>
    /\ invoked = <<>>
    /\ restore = NoRestore
    /\ userFile = CurrentContent
    /\ atTime = NoAtTime

\* parseTimestamp(timestampInput), as reconstructDirectoryAtTime calls it.
ParseTimestamp ==
    /\ pResult = <<>>
    /\ pResult' = Some(parseTimestamp(pInput, pZone))
    /\ UNCHANGED <<pInput, pZone, query, extensionVars, restoreVars, resolveVars, indexVars, reconVars>>

ParseNext == ParseTimestamp

SpecParse == ParseInit /\ [][ParseNext]_vars

\* The integer an all-digit string denotes.
IntegerOf(s) == StripZeros([i \in 1..Len(s) |-> DigitValue(s[i])])

\* What the claim gives for the integer v: v * 1000 below 4102444800, else v.
SecondsOrMillis(v) ==
    IF NumLess(v, Year2100) /\ v # <<0>> THEN v \o <<0, 0, 0>> ELSE v

\* C21 as stated: parseTimestamp on an all-digit string of integer value v
\* returns v * 1000 when v < 4102444800 and v otherwise; as seconds,
\* 1751055000 gives the instant 1751055000000.
C21_DigitsSecondsOrMillis ==
    (pResult # <<>> /\ MatchesAllDigits(pInput)) =>
        /\ ~pResult[1].threw
        /\ pResult[1].value = SecondsOrMillis(IntegerOf(pInput))
        /\ IntegerOf(pInput) = <<1, 7, 5, 1, 0, 5, 5, 0, 0, 0>> =>
             pResult[1].value = <<1, 7, 5, 1, 0, 5, 5, 0, 0, 0, 0, 0, 0>>

\* C21 amended: the same for every all-digit string of integer value
\* v <= 2^53 (9007199254740992).
C21_DigitsUpToTwoTo53 ==
    (/\ pResult # <<>>
     /\ MatchesAllDigits(pInput)
     /\ ~NumLess(TwoTo53, IntegerOf(pInput))) =>
        /\ ~pResult[1].threw
        /\ pResult[1].value = SecondsOrMillis(IntegerOf(pInput))
        /\ IntegerOf(pInput) = <<1, 7, 5, 1, 0, 5, 5, 0, 0, 0>> =>
             pResult[1].value = <<1, 7, 5, 1, 0, 5, 5, 0, 0, 0, 0, 0, 0>>

\* The ten digits 1751055000, taken as seconds.
C21_Witness ==
    /\ pInput = Chars(<<1, 7, 5, 1, 0, 5, 5, 0, 0, 0>>)
    /\ pResult = Some([threw |-> FALSE,
                       value |-> <<1, 7, 5, 1, 0, 5, 5, 0, 0, 0, 0, 0, 0>>])

\* C22: parseTimestamp on a bare YYYY-MM-DD date returns midnight local time
\* of that date, in every time zone.
C22_BareDateIsLocalMidnight ==
    (/\ pResult # <<>>
     /\ MatchesDateOnly(pInput)
     /\ TwoDigits(pInput, 6) \in 1..12) =>
        /\ ~pResult[1].threw
        /\ pResult[1].value =
             GetTime(DaysFromCivil(FourDigits(pInput, 1), TwoDigits(pInput, 6),
                                   TwoDigits(pInput, 9)) * 86400 - pZone * 60)

(***************************************************************************)
(* The queries on the extractor, each one ensureScanned, an await, then    *)
(* the read of the index; scans, refreshes and a store that comes and goes *)
(* in between.                                                             *)
(***************************************************************************)
QueryItems ==
    { NoManifest,
      Manifest(Some(Uri(PathPX)), << RawEntry("a", 1), RawEntry("b", 2) >>, {"a", "b"}),
      Manifest(Some(Uri(PathPQX)), << RawEntry("a", 0) >>, {"a"}) }

QueryStores == { <<i1, i2>> : i1 \in QueryItems, i2 \in QueryItems }

QueryInit ==
    /\ ResolveIdle
    /\ ReconIdle
    /\ CommandIdle
    /\ store \in QueryStores
    /\ storeExists \in BOOLEAN
    /\ timelineFiles = EmptyMap
    /\ scanned = FALSE
    /\ log = <<>>
    /\ built = EmptyMap
    /\ last = "none"
    /\ listPc = "idle"

\* The head of a query: await this.ensureScanned(). A scan that throws
\* rejects the query; otherwise the query waits to be resumed.
QueryCall(op, arg) ==
    /\ query.pc # "awaiting"
    /\ IF ShouldScan(scanned)
       THEN /\ RunScan(scanned)
            /\ query' = [pc |-> IF storeExists THEN "awaiting" ELSE "rejected",
                         op |-> op, arg |-> arg, value |-> <<>>]
       ELSE /\ UNCHANGED <<timelineFiles, log, scanned, built, last>>
            /\ query' = [pc |-> "awaiting", op |-> op, arg |-> arg, value |-> <<>>]
    /\ UNCHANGED <<store, storeExists, listPc, resolveVars, reconVars, pInput, pZone, pResult, extensionVars, restoreVars>>

GetAllFiles == QueryCall("getAllFiles", <<>>)

FilterByDirectory == \E directoryPath \in SourceDirs : QueryCall("filterByDirectory", directoryPath)

GetFile == \E filePath \in {PathPX, <<"/", "x">>, PathPY} : QueryCall("getFile", filePath)

GetStatistics == QueryCall("getStatistics", <<>>)

SearchFiles == \E pattern \in { <<"x">>, <<"P", "Q">>, <<"y">> } : QueryCall("searchFiles", pattern)

\* The query resumes after its await and reads this.timelineFiles.
QueryReturn ==
    /\ query.pc = "awaiting"
    /\ query' = [query EXCEPT
                   !.pc = "served",
                   !.value = CASE query.op = "getAllFiles" -> timelineFiles
                               [] query.op = "filterByDirectory" ->
                                      filterByDirectory(timelineFiles, query.arg)
                               [] query.op = "getFile" -> getFile(timelineFiles, query.arg)
                               [] query.op = "getStatistics" -> getStatistics(timelineFiles)
                               [] query.op = "searchFiles" ->
                                      searchFiles(timelineFiles, query.arg)]
    /\ UNCHANGED <<indexVars, resolveVars, reconVars, pInput, pZone, pResult, extensionVars, restoreVars>>

\* reconstructDirectory into an empty directory, nothing made to fault.
ReconstructPlain ==
    /\ query.pc # "awaiting"
    /\ ReconstructDirectory
    /\ call'.faults = NoFaults
    /\ call'.atTimestamp = Undefined
    /\ ~call'.exportMetadata

QueryNext ==
    \/ GetAllFiles
    \/ FilterByDirectory
    \/ GetFile
    \/ GetStatistics
    \/ SearchFiles
    \/ QueryReturn
    \/ ReconstructPlain
    \/ ScanTimeline
    \/ Refresh
    \/ StoreToggle

SpecQuery == QueryInit /\ [][QueryNext]_vars

\* A step that is the head of one of the five readers.
ReaderBegins == query' # query /\ query'.pc \in {"awaiting", "rejected"}

\* A step that is a reconstructDirectory call.
ReconstructBegins == call = NoCall /\ call' # NoCall

QueryBegins == ReaderBegins \/ ReconstructBegins

\* The query goes on past ensureScanned.
QueryGoesOn ==
    \/ ReaderBegins /\ query'.pc = "awaiting"
    \/ ReconstructBegins /\ ~outcome'[1].threw

\* C23: a query on an unscanned extractor first runs a scan and goes on only
\* when the scan completed; a query on a scanned extractor runs no scan and
\* leaves the index as it is; and scanned is reset only by a refresh (whose
\* scan failed).
C23_QueriesScanOnce ==
    [][/\ (QueryBegins /\ ~scanned) =>
             /\ last' \in {"scanOk", "scanFailed"}
             /\ QueryGoesOn => (scanned' /\ last' = "scanOk" /\ timelineFiles' = built')
       /\ (QueryBegins /\ scanned) =>
             /\ scanned'
             /\ timelineFiles' = timelineFiles
             /\ log' = log
             /\ last' = last
       /\ (query.pc = "awaiting" /\ query'.pc = "served") =>
             timelineFiles' = timelineFiles /\ last' = last
       /\ (scanned /\ ~scanned') => last' = "scanFailed"]_vars

\* The store went away after a scan of two tracked files; a reader called
\* since then waits on the index of that scan, and no scan was run for it.
C23_Witness ==
    /\ query.pc = "awaiting"
    /\ scanned
    /\ last = "storeChanged"
    /\ ~storeExists
    /\ Len(timelineFiles) = 2

(***************************************************************************)
(* The extension: activate creates an extractor and hands it to the        *)
(* commands and to the files tree view; a configuration change creates     *)
(* another one.                                                            *)
(***************************************************************************)
\* The most extractors created in one session.
MaxExtractors == 3

\* Values of timelineExtractor.customTimelinePath; "" asks for auto-detection.
ConfigPaths == {"", "A", "B", "gone"}

\* The directories that exist: the default history directory, A and B.
ExistingPaths == {"default", "A", "B"}

\* resolveTimelinePath(undefined): the configured path when there is one (it
\* throws when the directory does not exist), else the default path.
resolveTimelinePath(configPath) ==
    IF configPath # ""
    THEN IF configPath \in ExistingPaths
         THEN [threw |-> FALSE, path |-> configPath]
         ELSE [threw |-> TRUE, path |-> ""]
    ELSE [threw |-> FALSE, path |-> "default"]

\* new VSCodeTimelineExtractor(undefined, outputChannel)
NewExtractor(timelinePath) == [timelinePath |-> timelinePath, scanned |-> FALSE]

\* extractor = new VSCodeTimelineExtractor(...) in the handler: the module's
\* variable is assigned; registerCommands' parameter and
\* TimelineFilesProvider.extractor keep the object they were given.
Reassign(holders, created) == [holders EXCEPT !.module = created]

\* The commands of registerCommands that work on the extractor.
ExtractorCommands ==
    { "showInfo", "listFiles", "listFilesInDirectory", "reconstructDirectory",
      "reconstructDirectoryAtTime", "showVersions", "exportVersion", "refresh" }

\* The state activate leaves: one extractor, held by the module, by the
\* commands and by the files tree view, its initial scan done or failed.
ExtensionInit ==
    /\ ResolveIdle
    /\ IndexIdle
    /\ ReconIdle
    /\ pInput = <<>> /\ pZone = 0 /\ pResult = <<>> /\ query = NoQuery
    /\ restore = NoRestore /\ userFile = CurrentContent /\ atTime = NoAtTime
    /\ config \in ConfigPaths \ {"gone"}
    /\ \E isScanned \in BOOLEAN :
          heap = << [NewExtractor(resolveTimelinePath(config).path)
                       EXCEPT !.scanned = isScanned] >>
    /\ refs = [module |-> 1, commands |-> 1, provider |-> 1]
    /\ invoked = <<>>

\* onDidChangeConfiguration with a change that affects timelineExtractor.
ChangeConfiguration ==
    /\ Len(heap) < MaxExtractors
    /\ \E newPath \in ConfigPaths :
        /\ config' = newPath
        /\ IF resolveTimelinePath(newPath).threw
           THEN UNCHANGED <<heap, refs>>
           ELSE /\ heap' = Append(heap, NewExtractor(resolveTimelinePath(newPath).path))
                /\ refs' = Reassign(refs, Len(heap) + 1)
    /\ UNCHANGED <<invoked, pInput, pZone, pResult, query, restoreVars, resolveVars, indexVars, reconVars>>

\* A command runs: it queries the extractor registerCommands was given
\* (refresh rescans it).
InvokeCommand ==
    /\ \E command \in ExtractorCommands :
        /\ heap' = [heap EXCEPT ![refs.commands].scanned = TRUE]
        /\ invoked' = [by |-> command, extractor |-> refs.commands,
                       timelinePath |-> heap[refs.commands].timelinePath]
    /\ UNCHANGED <<config, refs, pInput, pZone, pResult, query, restoreVars, resolveVars, indexVars, reconVars>>

\* TimelineFilesProvider.getChildren: the tree view queries its extractor.
GetChildren ==
    /\ heap' = [heap EXCEPT ![refs.provider].scanned = TRUE]
    /\ invoked' = [by |-> "filesTreeView", extractor |-> refs.provider,
                   timelinePath |-> heap[refs.provider].timelinePath]
    /\ UNCHANGED <<config, refs, pInput, pZone, pResult, query, restoreVars, resolveVars, indexVars, reconVars>>

ExtensionNext ==
    \/ ChangeConfiguration
    \/ InvokeCommand
    \/ GetChildren

SpecExtension == ExtensionInit /\ [][ExtensionNext]_vars

\* C24: a command or the files tree view that runs works on the extractor
\* created last (the one the latest configuration change made, if any) and
\* on its timeline path.
C24_CommandsUseNewExtractor ==
    [][invoked' # invoked =>
         /\ invoked'.extractor = refs.module
         /\ invoked'.timelinePath = heap[refs.module].timelinePath]_vars

(***************************************************************************)
(* restoreVersion: the command on a version of the File Versions view,     *)
(* while the editor goes on changing the store.                            *)
(***************************************************************************)
\* The item handed to the command: none, or a version (the sub-directory of
\* its file and its id) the view was built with.
VersionItems ==
    {Undefined} \cup { Some([timelineDir |-> d, id |-> id]) : d \in 1..2, id \in Ids \cup {""} }

RestoreInit ==
    /\ ResolveIdle
    /\ ReconIdle
    /\ pInput = <<>> /\ pZone = 0 /\ pResult = <<>> /\ query = NoQuery
    /\ config = "" /\ heap = <<>> /\ refs = <<>> /\ invoked = <<>>
    /\ restore = NoRestore
    /\ userFile = CurrentContent
    /\ atTime = NoAtTime
    /\ store \in Stores
    /\ storeExists = TRUE
    /\ timelineFiles = EmptyMap
    /\ scanned = FALSE
    /\ log = <<>>
    /\ built = EmptyMap
    /\ last = "none"
    /\ listPc = "idle"

\* Any answer taken for a confirmation.
MutAnyAnswer(confirm) == TRUE

\* if (confirm !== 'Restore') return;
Confirmed(confirm) == confirm = "Restore"

\* fs.copyFileSync(versionPath, currentPath) throws when versionPath is gone
\* or is a directory (an empty id), or when the copy itself faults.
CopyThrows(items, item, fault) ==
    \/ ~BlobExists(items, item.timelineDir, item.id)
    \/ item.id = ""
    \/ fault

\* restoreVersion up to its await: no item, or no file at versionPath, ends
\* it; otherwise the modal warning is shown.
RestoreVersion ==
    /\ restore.pc # "confirming"
    /\ \E item \in VersionItems :
        restore' =
            IF item = Undefined
            THEN [pc |-> "done", item |-> item, answer |-> "none", ended |-> "no item"]
            ELSE IF ~BlobExists(store, item[1].timelineDir, item[1].id)
            THEN [pc |-> "done", item |-> item, answer |-> "none",
                  ended |-> "Version file not found"]
            ELSE [pc |-> "confirming", item |-> item, answer |-> "none", ended |-> "none"]
    /\ UNCHANGED <<userFile, atTime, pInput, pZone, pResult, query, extensionVars, resolveVars, indexVars, reconVars>>

\* The modal closes with the user's answer; on 'Restore' the version is
\* copied over the file.
RestoreAnswered ==
    /\ restore.pc = "confirming"
    /\ \E confirm \in {"Restore", "dismissed"}, fault \in BOOLEAN :
        IF ~Confirmed(confirm)
        THEN /\ restore' = [restore EXCEPT !.pc = "done", !.answer = confirm,
                                           !.ended = "dismissed"]
             /\ UNCHANGED userFile
        ELSE IF CopyThrows(store, restore.item[1], fault)
        THEN /\ restore' = [restore EXCEPT !.pc = "done", !.answer = confirm,
                                           !.ended = "Failed to restore version"]
             /\ UNCHANGED userFile
        ELSE /\ restore' = [restore EXCEPT !.pc = "done", !.answer = confirm,
                                           !.ended = "Restored version"]
             /\ userFile' = Some(BlobContent(restore.item[1].timelineDir,
                                             restore.item[1].id))
    /\ UNCHANGED <<atTime, pInput, pZone, pResult, query, extensionVars, resolveVars, indexVars, reconVars>>

RestoreNext ==
    \/ RestoreVersion
    \/ RestoreAnswered
    \/ StoreWrite

SpecRestore == RestoreInit /\ [][RestoreNext]_vars

\* The store holds the content blob of the item's version.
HasBlob(items, item) ==
    /\ items[item.timelineDir].kind = "manifest"
    /\ item.id \in items[item.timelineDir].blobs

\* C25: the file at the original path changes only in the step that follows
\* the user's 'Restore' answer, only when the version's blob exists, and then
\* to that blob's content; a command that ended for lack of an item or of the
\* blob, or with the prompt dismissed, left the file as it was.
C25_RestoreOnlyWhenConfirmed ==
    [][/\ userFile' # userFile =>
            /\ restore.pc = "confirming"
            /\ restore'.answer = "Restore"
            /\ HasBlob(store, restore.item[1])
            /\ userFile' = Some(BlobContent(restore.item[1].timelineDir,
                                            restore.item[1].id))
       /\ (restore' # restore /\ restore'.answer # "Restore") =>
            userFile' = userFile]_vars

\* The user confirmed and version a of the first sub-directory replaced the
\* file.
C25_Witness ==
    /\ restore.pc = "done"
    /\ restore.answer = "Restore"
    /\ restore.ended = "Restored version"
    /\ restore.item = Some([timelineDir |-> 1, id |-> "a"])
    /\ userFile = Some(BlobContent(1, "a"))

(***************************************************************************)
(* reconstructDirectoryAtTime: the prompts of the command, then one call   *)
(* of the engine.                                                          *)
(***************************************************************************)
\* What the user may type at the timestamp prompt: seconds (instants small
\* enough to compute with), and strings that are no timestamp.
TimestampInputs ==
    { Chars(<<0>>), Chars(<<1>>), <<"0", "2">>, <<"n", "o", "w">>, <<"1", "s">>, <<>> }

AtTimeInit ==
    /\ ResolveIdle
    /\ ReconIdle
    /\ pInput = <<>> /\ pZone \in {0, 120} /\ pResult = <<>> /\ query = NoQuery
    /\ config = "" /\ heap = <<>> /\ refs = <<>> /\ invoked = <<>>
    /\ restore = NoRestore /\ userFile = CurrentContent
    /\ atTime = NoAtTime
    /\ store \in AgainStores
    /\ storeExists = TRUE
    /\ timelineFiles = EmptyMap
    /\ scanned = FALSE
    /\ log = <<>>
    /\ built = EmptyMap
    /\ last = "none"
    /\ listPc = "idle"

\* A prompt that never counts as unanswered.
MutNeverFalsy(answer) == FALSE

\* !input, !timestampInput, !outputUri: the prompt was dismissed or left empty.
Falsy(answer) == ~answer.given \/ answer.text = <<>>

AtTimeFrame ==
    UNCHANGED <<restore, userFile, pInput, pZone, pResult, query, extensionVars, resolveVars>>

\* The command starts: with a uri the source directory is its path,
\* without one the source prompt is shown.
ReconstructDirectoryAtTime ==
    /\ atTime.pc = "idle"
    /\ \E uri \in {Dismissed} \cup { Entered(d) : d \in SourceDirs } :
        atTime' = IF uri.given
                  THEN [atTime EXCEPT !.pc = "askTimestamp", !.uri = uri,
                                      !.sourceDirectory = uri.text,
                                      !.asked = <<"timestamp">>]
                  ELSE [atTime EXCEPT !.pc = "askSource", !.asked = <<"source">>]
    /\ AtTimeFrame
    /\ UNCHANGED <<indexVars, reconVars>>

\* The source prompt closes.
SourceAnswered ==
    /\ atTime.pc = "askSource"
    /\ \E input \in {Dismissed, Entered(<<>>)} \cup { Entered(d) : d \in SourceDirs } :
        atTime' = IF Falsy(input)
                  THEN [atTime EXCEPT !.pc = "done", !.source = input,
                                      !.ended = "cancelled"]
                  ELSE [atTime EXCEPT !.pc = "askTimestamp", !.source = input,
                                      !.sourceDirectory = input.text,
                                      !.asked = Append(@, "timestamp")]
    /\ AtTimeFrame
    /\ UNCHANGED <<indexVars, reconVars>>

\* The timestamp prompt closes; what was typed is parsed.
TimestampAnswered ==
    /\ atTime.pc = "askTimestamp"
    /\ \E timestampInput \in {Dismissed} \cup { Entered(t) : t \in TimestampInputs } :
        atTime' = IF Falsy(timestampInput)
                  THEN [atTime EXCEPT !.pc = "done", !.timestampInput = timestampInput,
                                      !.ended = "cancelled"]
                  ELSE IF parseTimestamp(timestampInput.text, pZone).threw
                  THEN [atTime EXCEPT !.pc = "done", !.timestampInput = timestampInput,
                                      !.ended = "Invalid timestamp"]
                  ELSE [atTime EXCEPT !.pc = "askOutput",
                                      !.timestampInput = timestampInput,
                                      !.timestamp =
                                          Some(parseTimestamp(timestampInput.text,
                                                              pZone).value),
                                      !.asked = Append(@, "output")]
    /\ AtTimeFrame
    /\ UNCHANGED <<indexVars, reconVars>>

\* The save dialog closes; exportMetadata is read from the configuration.
OutputAnswered ==
    /\ atTime.pc = "askOutput"
    /\ \E outputUri \in {Dismissed, Entered(<<"out">>)}, exportMetadata \in BOOLEAN :
        atTime' = IF Falsy(outputUri)
                  THEN [atTime EXCEPT !.pc = "done", !.output = outputUri,
                                      !.ended = "cancelled"]
                  ELSE [atTime EXCEPT !.pc = "reconstructing", !.output = outputUri,
                                      !.exportMetadata = exportMetadata]
    /\ AtTimeFrame
    /\ UNCHANGED <<indexVars, reconVars>>

\* The message the command ends with, from what the engine did.
AtTimeMessage(o) ==
    IF o.threw THEN "Failed to reconstruct directory"
    ELSE IF o.result[1].success THEN "Reconstructed" ELSE "Reconstruction failed"

\* withProgress: extractor.reconstructDirectory(sourceDirectory,
\* outputDirectory, exportMetadata, timestamp), then the message.
AtTimeReconstruct ==
    /\ atTime.pc = "reconstructing"
    /\ call = NoCall
    /\ \E faults \in Faults :
        /\ atTime.exportMetadata \/ (faults.hash = {} /\ faults.op # "write")
        /\ call' = [sourceDirectory |-> atTime.sourceDirectory,
                    exportMetadata |-> atTime.exportMetadata,
                    atTimestamp |-> Some(NumToInt(atTime.timestamp[1])),
                    faults |-> faults]
        /\ IF ~ShouldScan(scanned)
           THEN UNCHANGED <<timelineFiles, log, scanned, built, last>>
           ELSE RunScan(scanned)
        /\ \E o \in { reconstructDirectory(timelineFiles', store, atTime.sourceDirectory,
                          atTime.exportMetadata, Some(NumToInt(atTime.timestamp[1])),
                          faults, dest) } :
                /\ outcome' = Some([threw |-> o.threw, matching |-> o.matching,
                                    result |-> o.result])
                /\ dest' = o.dest
                /\ atTime' = [atTime EXCEPT !.pc = "done", !.ended = AtTimeMessage(o)]
    /\ AtTimeFrame
    /\ UNCHANGED <<store, storeExists, listPc, before>>

AtTimeNext ==
    \/ ReconstructDirectoryAtTime
    \/ SourceAnswered
    \/ TimestampAnswered
    \/ OutputAnswered
    \/ AtTimeReconstruct

SpecAtTime == AtTimeInit /\ [][AtTimeNext]_vars

\* C26: the engine was called only with a source directory (from the uri or
\* the prompt), a timestamp that parsed and an output directory, asked for in
\* that order; a request that ended on a dismissed or empty prompt or on a
\* timestamp that does not parse called no engine and wrote no file.
C26_EngineAfterAllInputs ==
    /\ atTime.asked \in { SubSeq(<<"source", "timestamp", "output">>, 1, n) : n \in 0..3 }
                           \cup { SubSeq(<<"timestamp", "output">>, 1, n) : n \in 0..2 }
    /\ call # NoCall =>
         /\ \/ atTime.uri.given /\ call.sourceDirectory = atTime.uri.text
            \/ /\ atTime.source.given /\ atTime.source.text # <<>>
               /\ call.sourceDirectory = atTime.source.text
         /\ atTime.timestampInput.given /\ atTime.timestampInput.text # <<>>
         /\ MatchesAllDigits(atTime.timestampInput.text)
         /\ call.atTimestamp = Some(1000 * NumToInt(IntegerOf(atTime.timestampInput.text)))
         /\ atTime.output.given /\ atTime.output.text # <<>>
         /\ atTime.asked[Len(atTime.asked)] = "output"
    /\ (\/ ~atTime.uri.given /\ Falsy(atTime.source) /\ atTime.pc \notin {"idle", "askSource"}
        \/ Falsy(atTime.timestampInput) /\ atTime.pc \notin {"idle", "askSource", "askTimestamp"}
        \/ ~MatchesAllDigits(atTime.timestampInput.text) /\ atTime.pc = "done"
        \/ Falsy(atTime.output) /\ atTime.pc = "done") =>
         /\ call = NoCall
         /\ dest = EmptyDir

\* Source typed at the prompt, timestamp 1 (a second), output chosen: the
\* engine ran at instant 1000 and wrote x.
C26_Witness ==
    /\ atTime.pc = "done"
    /\ atTime.asked = <<"source", "timestamp", "output">>
    /\ atTime.ended = "Reconstructed"
    /\ call # NoCall
    /\ call.atTimestamp = Some(1000)
    /\ <<"x">> \in DOMAIN dest

(***************************************************************************)
(* What a reconstruction's result tells of the matching files.             *)
(***************************************************************************)
\* The skip count a result carries; a result without one counts none.
SkipCount(result) == IF result.skippedFiles = Undefined THEN 0 ELSE result.skippedFiles[1]

\* C27: a reconstruction that returned a result accounts for every matching
\* file: filesProcessed is the length of files, and filesProcessed, the
\* number of errors and the skip count add up to the number of matching
\* files, with an instant and without one.
C27_ResultAccountsForAll ==
    (outcome # Undefined /\ ~outcome[1].threw) =>
        /\ outcome[1].result[1].filesProcessed = Len(outcome[1].result[1].files)
        /\ outcome[1].result[1].filesProcessed + Len(outcome[1].result[1].errors)
             + SkipCount(outcome[1].result[1]) = Len(outcome[1].matching)

\* The matching file's version can be copied: it resolves, its blob exists
\* and copying it does not fault.
Copyable(timelineFile, atTimestamp, items, faults) ==
    /\ ResolveEntry(timelineFile, atTimestamp) # Undefined
    /\ BlobExists(items, timelineFile.timelineDir,
                  ResolveEntry(timelineFile, atTimestamp)[1].id)
    /\ ResolveEntry(timelineFile, atTimestamp)[1].id # ""
    /\ timelineFile.timelineDir \notin faults.copy

\* C28: after a reconstruction that returned, every matching file strictly
\* under the source directory whose version can be copied is in the
\* destination at its path relative to the source directory, whatever its
\* segments are named.
C28_UnderSourceMaterialized ==
    (outcome # Undefined /\ ~outcome[1].threw) =>
        \A i \in 1..Len(outcome[1].matching) :
            (/\ Under(call.sourceDirectory, outcome[1].matching[i].key)
             /\ outcome[1].matching[i].key # PathResolve(call.sourceDirectory)
             /\ Copyable(outcome[1].matching[i].value, call.atTimestamp, store,
                         call.faults))
            => PathRelative(PathResolve(call.sourceDirectory),
                            outcome[1].matching[i].key) \in DOMAIN dest

(***************************************************************************)
(* Reconstructions of a directory that tracks a file named like the        *)
(* metadata document.                                                      *)
(***************************************************************************)
PathPMetadata == <<"/", "p", "/">> \o METADATA_FILENAME

NamedItems ==
    { NoManifest,
      Manifest(Some(Uri(PathPX)), << RawEntry("a", 1), RawEntry("b", 2) >>, {"a", "b"}),
      Manifest(Some(Uri(PathPY)), << RawEntry("a", 2) >>, {}),
      Manifest(Some(Uri(PathPMetadata)), << RawEntry("a", 1) >>, {"a"}) }

NamedStores == { <<i1, i2, i3>> : i1 \in NamedItems, i2 \in NamedItems, i3 \in NamedItems }

NamedInit ==
    /\ ResolveIdle
    /\ ReconIdle
    /\ CommandIdle
    /\ store \in NamedStores
    /\ storeExists \in BOOLEAN
    /\ timelineFiles = EmptyMap
    /\ scanned = FALSE
    /\ log = <<>>
    /\ built = EmptyMap
    /\ last = "none"
    /\ listPc = "idle"

NamedNext ==
    \/ ReconstructDirectory
    \/ (call = NoCall /\ ScanTimeline)

SpecNamed == NamedInit /\ [][NamedNext]_vars

\* C29: after a reconstruction that returned success, every path of the
\* result's files list is in the destination with the content of the
\* resolved version of a matching file of that relative path; the metadata
\* document has not taken the place of any of them.
C29_FilesKeepTheirContent ==
    (outcome # Undefined /\ ~outcome[1].threw /\ outcome[1].result[1].success) =>
        \A k \in 1..Len(outcome[1].result[1].files) :
            /\ outcome[1].result[1].files[k] \in DOMAIN dest
            /\ \E i \in 1..Len(outcome[1].matching) :
                /\ PathRelative(PathResolve(call.sourceDirectory),
                                outcome[1].matching[i].key)
                     = outcome[1].result[1].files[k]
                /\ ResolveEntry(outcome[1].matching[i].value, call.atTimestamp) # Undefined
                /\ dest[outcome[1].result[1].files[k]]
                     = BlobContent(outcome[1].matching[i].value.timelineDir,
                                   ResolveEntry(outcome[1].matching[i].value,
                                                call.atTimestamp)[1].id)

\* C30: whenever the latest reconstruction into a destination returned
\* success with exportMetadata set, the metadata document in the destination
\* lists the files of that reconstruction's result, also when the result
\* lists none.
C30_DocumentDescribesLatest ==
    (/\ call # NoCall
     /\ ~outcome[1].threw
     /\ outcome[1].result[1].success
     /\ call.exportMetadata
     /\ METADATA_FILENAME \in DOMAIN dest) =>
        /\ Len(Records(dest)) = Len(outcome[1].result[1].files)
        /\ \A i \in 1..Len(Records(dest)) :
             Records(dest)[i].relativePath = outcome[1].result[1].files[i]

====
